---- MODULE Spec2Model ----
(***************************************************************************)
(* Model of the MCP transport bridge runtime: the server registry, the     *)
(* connection manager and the bridge manager (src/src/bridge), with the    *)
(* child processes, adapters and handlers they drive.                      *)
(*                                                                         *)
(* The bridge runs on one cooperative event loop.  An async method runs    *)
(* without interruption up to an await on an adapter, a handler or a       *)
(* process; there it suspends and any other request, process exit or timer *)
(* may run.  `running` names the task that holds the loop (0: loop idle),  *)
(* `runq` the continuations already resolved and waiting for their turn.   *)
(*                                                                         *)
(* The state space of all requests together is too large to enumerate, so  *)
(* the properties are checked under scenario specifications:               *)
(*   SpecSupervisor  two callers start and stop the server; exits, timers  *)
(*   SpecCrash       one operator, autoRestart server, request history     *)
(*   SpecConn        one caller connects, disconnects, deletes, stops      *)
(*   SpecSwap        one caller hot-swaps a server with 0..2 connections   *)
(*   SpecSwap2       two callers hot-swap concurrently                     *)
(*   SpecConnStop    two callers connect sse clients and stop the server   *)
(*   SpecConnEnv     one caller connects with environment variables        *)
(*   SpecDisconnect  one caller disconnects connections                    *)
(*   SpecStart       two callers and the restart timer start the server    *)
(*   SpecStop        two callers stop, start and disconnect                *)
(*   SpecIdle        deltas posted while the server is not Running         *)
(*   SpecMerge       deltas posted in every status of the server           *)
(*   SpecDelete      two callers delete, stop and start the server         *)
(*   SpecReconnect   one caller reconnects, disconnects, deletes           *)
(*   SpecWire        frames cross the handler of one connection            *)
(*   SpecWireFair    SpecWire, every request in flight goes on             *)
(*   SpecSwapIdle    one caller disconnects connections and hot-swaps      *)
(*   SpecAdapter     the adapters of one handler are started and stopped   *)
(*   SpecPost        bodies are posted for connections of every kind       *)
(*   SpecStopFair    SpecStop, requests go on and signalled children exit  *)
(*   SpecRace        two callers start and stop a server, no autoRestart   *)
(*   SpecRemove      two callers connect, disconnect, delete a connection  *)
(***************************************************************************)
EXTENDS Integers, Sequences, FiniteSets, TLC

\* ----------------------------------------------------------------- bounds
MaxSpawns == 3          \* child processes spawned in one run
MaxFaults == 1          \* adapter / handler / spawn failures in one run
MaxRestartsBound == 1   \* largest maxRestarts a server is registered with
NConn == 2              \* connection ids
MaxFrames == 2          \* frames that arrive at one adapter of a handler

\* -------------------------------------------------------------- constants
DefaultEnv == [k \in {"X", "Y"} |-> "unset"]

ApiTasks == {1, 2}      \* concurrent requests to the manager
TimerTask == 3          \* the restart timer's callback
Tasks == ApiTasks \cup {TimerTask}
ConnIds == 1 .. NConn
Keys == {"X", "Y"}
\* the environment deltas a caller posts
Deltas == { [k \in {"X"} |-> "1"], [k \in {"X"} |-> "2"], [k \in {"Y"} |-> "1"] }
TransportType == {"stdio", "sse", "memory"}
NoMax == -1             \* maxRestarts undefined
ServerId == "s1"
UnknownServerId == "nosuch"

VARIABLES
  server,       \* the ServerInstance of ServerId in the registry
  procs,        \* child processes spawned so far, in spawn order
  connections,  \* ConnectionManager.connections: id -> ConnectionInstance
  order,        \* insertion order of the connections map
  bridges,      \* BridgeManager.bridges: ids that have a handler
  timers,       \* restart timers scheduled and not yet fired
  tasks,        \* call stack and last result of every task
  running,      \* task that holds the event loop, 0 when it is idle
  runq,         \* resolved continuations waiting for the loop
  faults,       \* failures the environment has produced so far
  usedIds,      \* connection ids created so far (random ids are fresh)
  ghost,        \* history the claims speak of (not program state)
  handlers,     \* the ProtocolHandler built for each connection id, with
                \* its two adapters and the frames that crossed it
  event         \* what the last step did (return, exit, spawn, ...)

vars == <<server, procs, connections, order, bridges, timers, tasks,
          running, runq, faults, usedIds, ghost, handlers, event>>

NoEvent == [kind |-> "none"]
NoCfg == [id |-> 0, serverId |-> "", transport |-> ""]
NoConn == [status |-> "absent", cfg |-> NoCfg, reconnectCount |-> 0, error |-> FALSE]
NoDelta == [k \in {} |-> ""]
NoHistory == [track |-> "none", stopped |-> "no", starts |-> 0, stops |-> 0,
              crashed |-> FALSE]

\* ---------------------------------------------------------- call frames
Frame(fn, pc) ==
  [fn |-> fn, pc |-> pc, c |-> 0, cfg |-> NoCfg, list |-> <<>>, cfgs |-> <<>>,
   delta |-> NoDelta, p |-> 0, snap |-> {}, clients |-> {}, all0 |-> {},
   spawns0 |-> 0, via |-> "api", pend |-> FALSE, wasRunning |-> FALSE,
   cause |-> "none"]

Stack(t) == tasks[t].stack
Depth(t) == Len(tasks[t].stack)
Top(t) == tasks[t].stack[Depth(t)]
Free(t) == tasks[t].stack = <<>>
\* a request takes the lowest free caller slot
Slot(t) == t \in ApiTasks /\ Free(t) /\ \A u \in ApiTasks : u < t => ~Free(u)
Idle == running = 0

\* task t holds the loop and its innermost frame is at (fn, pc)
At(t, fn, pc) ==
  /\ running = t
  /\ ~Free(t)
  /\ Top(t).fn = fn
  /\ Top(t).pc = pc

\* task t is suspended in (fn, pc) waiting for the environment
Awaiting(t, fn, pc) ==
  /\ running = 0
  /\ ~Free(t)
  /\ Top(t).fn = fn
  /\ Top(t).pc = pc

WithTop(t, f) == [tasks EXCEPT ![t].stack[Depth(t)] = f, ![t].ret = "none"]
Goto(t, pc) == WithTop(t, [Top(t) EXCEPT !.pc = pc])
Push(t, f, callee) == [tasks EXCEPT ![t].stack = Append(WithTop(t, f)[t].stack, callee)]

\* the loop goes to the next resolved continuation, or idles
Release ==
  /\ running' = IF runq = <<>> THEN 0 ELSE Head(runq)
  /\ runq' = IF runq = <<>> THEN <<>> ELSE Tail(runq)

\* task t keeps (or takes) the loop
Hold(t) ==
  /\ running' = t
  /\ runq' = runq

\* the innermost function of task t returns (res = "ok") or throws ("err")
\* given the tasks value ts after the function's own updates
ReturnFrom(t, ts, res) ==
  /\ tasks' = [ts EXCEPT ![t].stack = SubSeq(@, 1, Len(@) - 1),
                          ![t].ret = IF Depth(t) = 1 THEN "none" ELSE res]
  /\ IF Depth(t) = 1
       THEN /\ Release
            /\ event' = [kind |-> "return", fn |-> Top(t).fn, res |-> res,
                         f |-> ts[t].stack[1]]
       ELSE /\ Hold(t)
            /\ event' = NoEvent

Return(t, res) == ReturnFrom(t, tasks, res)

\* the innermost function of task t throws an error of kind cause inside a
\* try block: control goes to its catch block
Throw(t, cause) == WithTop(t, [Top(t) EXCEPT !.pc = "catch", !.cause = cause])

\* task t suspends at pc of its innermost frame f
Suspend(t, f, pc) ==
  /\ tasks' = WithTop(t, [f EXCEPT !.pc = pc])
  /\ Release
  /\ event' = NoEvent

\* history kept when ghost.track = "requests": the start and stop requests
\* made so far (counted up to 2), and whether an operator's stopServer
\* returned with no start requested since ("pending": a restart timer was
\* pending when that stop was called)
Cap(n) == IF n < 2 THEN n + 1 ELSE 2
ExplicitStart ==
  IF ghost.track = "requests"
    THEN [ghost EXCEPT !.stopped = "no", !.starts = Cap(@)] ELSE ghost
ExplicitStop ==
  IF ghost.track = "requests" THEN [ghost EXCEPT !.stops = Cap(@)] ELSE ghost
OperatorStop(t) ==
  IF ghost.track = "requests" /\ Depth(t) = 1
    THEN [ghost EXCEPT !.stopped = IF Top(t).pend THEN "pending" ELSE "yes"]
    ELSE ghost
\* history kept when ghost.track = "crashes": a child exited on its own (no
\* stopServer was waiting for its exit) since the last hot-swap request
Crash(p, waiters) ==
  IF ghost.track = "crashes" /\ waiters = {}
    THEN [ghost EXCEPT !.crashed = TRUE] ELSE ghost
HotSwapRequested ==
  IF ghost.track = "crashes" THEN [ghost EXCEPT !.crashed = FALSE] ELSE ghost

\* ------------------------------------------------------- server registry
\* ServerRegistry.getServer(sid) finds the server (registry.ts 70-82)
Registered(sid) == sid = ServerId /\ server.registered

\* an unregister that removes the server whatever its status
unregisterServer_any(s) == [s EXCEPT !.registered = FALSE]

\* ServerRegistry.unregisterServer (registry.ts 52-65): only a Stopped server
\* leaves the map; for any other status it throws and nothing changes
unregisterServer(s) ==
  IF s.status = "stopped" THEN [s EXCEPT !.registered = FALSE] ELSE s

\* ServerRegistry.updateServerStatus
updateServerStatus(s, status, isError) ==
  [s EXCEPT !.status = status,
            !.error = IF isError THEN TRUE
                      ELSE IF status # "error" THEN FALSE ELSE @]

\* a restart test that allows one restart more than maxRestarts
shouldRestartServer_oneMore(s) ==
  IF ~s.autoRestart THEN FALSE
  ELSE IF s.maxRestarts # NoMax /\ s.restartCount > s.maxRestarts THEN FALSE
  ELSE TRUE

\* ServerRegistry.shouldRestartServer
shouldRestartServer(s) ==
  IF ~s.autoRestart THEN FALSE
  ELSE IF s.maxRestarts # NoMax /\ s.restartCount >= s.maxRestarts THEN FALSE
  ELSE TRUE

\* ServerRegistry.incrementRestartCount
incrementRestartCount(s) == [s EXCEPT !.restartCount = @ + 1]

\* ServerRegistry.resetRestartCount
resetRestartCount(s) == [s EXCEPT !.restartCount = 0]

\* a merge that keeps the previous value of a key the delta collides with
mergeEnv_keepOld(env, delta) ==
  [k \in Keys |-> IF k \in DOMAIN delta /\ env[k] = "unset" THEN delta[k] ELSE env[k]]

\* the shallow merge of ServerRegistry.updateServerEnvironment
mergeEnv(env, delta) ==
  [k \in Keys |-> IF k \in DOMAIN delta THEN delta[k] ELSE env[k]]

\* ServerRegistry.updateServerEnvironment (registry.ts 175-192): the merge
registryUpdateServerEnvironment(s, delta) == [s EXCEPT !.env = mergeEnv(@, delta)]

\* the value ServerRegistry.updateServerEnvironment returns (registry.ts 186-191)
needsRestart(s) == s.status = "running"

\* ----------------------------------------------------------- processes
\* spawnProcess: a new child with the environment it was launched with
NewProc(env, by) ==
  [alive |-> TRUE, env |-> env, watched |-> FALSE, by |-> by]

\* a child that exited: nothing of it is used again but who spawned it
Exited(pr) ==
  [alive |-> FALSE, env |-> DefaultEnv, watched |-> FALSE, by |-> pr.by]

Alive(p) == p # 0 /\ procs[p].alive
SupervisorSpawns == {p \in DOMAIN procs : procs[p].by = "supervisor"}

\* ------------------------------------------------- handlers and adapters
\* the two directions of a bridge; the adapter a direction's frames arrive
\* at and the adapter they are forwarded to
Dirs == {"c2s", "s2c"}
Near(d) == IF d = "c2s" THEN "client" ELSE "server"
Far(d) == IF d = "c2s" THEN "server" ELSE "client"
Frames == {"ping", "pong"}
NoFrames == [d \in Dirs |-> <<>>]

\* no handler was built for the connection id.  An adapter is "none" until
\* start() sets its transport, "open" while the transport is set, "ended"
\* once the transport reported its close, "closed" after stop()
NoHandler ==
  [client |-> "none", server |-> "none", upcalls |-> {},
   closes |-> [side \in {"client", "server"} |-> 0],
   recv |-> NoFrames, handed |-> NoFrames, sent |-> NoFrames]

\* BaseProtocolHandler.setClientAdapter / setServerAdapter, called by the
\* handler's constructor: the frame, error and close upcalls of both adapters
NewHandler == [NoHandler EXCEPT !.upcalls = {"client", "server"}]

\* BaseTransportAdapter.start up to its await: an adapter that holds no
\* transport (never started, or stopped) gets a new one, set and wired
AdapterStart(h, side) ==
  [h EXCEPT ![side] = IF @ \in {"none", "closed"} THEN "open" ELSE @]

\* a close upcall that runs for the first close of an adapter only
handleClose_once(h, side) ==
  [h EXCEPT !.closes[side] = IF side \in h.upcalls /\ @ = 0 THEN 1 ELSE @]

\* BaseTransportAdapter.handleClose: the close upcall runs, if one is set,
\* every time a transport of the adapter reports its close (closes counts
\* the runs: 0, 1, 2 for two or more)
handleClose(h, side) ==
  [h EXCEPT !.closes[side] = IF side \in h.upcalls THEN Cap(@) ELSE @]

\* BaseTransportAdapter.stop: a transport that is set is closed and dropped.
\* The transport reports the close to onclose; whether a transport that had
\* already reported its close reports it once more is the transport's
\* choice (again)
AdapterStop(h, side, again) ==
  IF h[side] = "open" \/ (h[side] = "ended" /\ again)
    THEN [handleClose(h, side) EXCEPT ![side] = "closed"]
  ELSE IF h[side] = "ended" THEN [h EXCEPT ![side] = "closed"]
  ELSE h

\* BaseProtocolHandler.start, both awaits resolved
HandlerStarted(h) == AdapterStart(AdapterStart(h, "server"), "client")

\* BaseProtocolHandler.stop, both awaits resolved
HandlerStopped(h, againC, againS) ==
  AdapterStop(AdapterStop(h, "client", againC), "server", againS)

\* BaseTransportAdapter.send: it throws unless the transport is set
CanSend(h, side) == h[side] \in {"open", "ended"}

\* a handler that forwards a frame ahead of the frames forwarded before it
Forward_newestFirst(h, d, f) ==
  [h EXCEPT !.recv[d] = Append(@, f),
            !.handed[d] = <<f>> \o @,
            !.sent[d] = IF CanSend(h, Far(d)) THEN <<f>> \o @ ELSE @]

\* setupTransportHandlers' onmessage with handleClientMessage /
\* handleServerMessage: the frame is handed to the far adapter's send before
\* the upcall returns; send passes it to the transport, or throws
Forward(h, d, f) ==
  [h EXCEPT !.recv[d] = Append(@, f),
            !.handed[d] = Append(@, f),
            !.sent[d] = IF CanSend(h, Far(d)) THEN Append(@, f) ELSE @]

\* ---------------------------------------------------------------- Init
InitServer(transport, autoRestart, maxRestarts) ==
  [status |-> "stopped", process |-> 0, transport |-> FALSE, error |-> FALSE,
   restartCount |-> 0, env |-> DefaultEnv,
   kind |-> transport, autoRestart |-> autoRestart, maxRestarts |-> maxRestarts,
   registered |-> TRUE]

InitRest ==
  /\ procs = <<>>
  /\ connections = [c \in ConnIds |-> NoConn]
  /\ order = <<>>
  /\ bridges = {}
  /\ handlers = [c \in ConnIds |-> NoHandler]
  /\ timers = 0
  /\ tasks = [t \in Tasks |-> [stack |-> <<>>, ret |-> "none"]]
  /\ running = 0
  /\ runq = <<>>
  /\ faults = 0
  /\ usedIds = {}
  /\ event = NoEvent

\* registerServer: a server starts Stopped with restartCount 0
Init ==
  /\ \E tr \in TransportType, ar \in BOOLEAN, mr \in {NoMax} \cup (0 .. MaxRestartsBound) :
       /\ tr # "stdio" => ~ar
       /\ ~ar => mr = NoMax
       /\ server = InitServer(tr, ar, mr)
  /\ ghost = NoHistory
  /\ InitRest

\* -------------------------------------------------------- startServer
\* a request, or the restart timer, calls startServer
CallStartServer(t) ==
  /\ Idle /\ Slot(t)
  /\ tasks' = [tasks EXCEPT ![t].stack = <<Frame("startServer", "begin")>>,
                            ![t].ret = "none"]
  /\ Hold(t)
  /\ event' = NoEvent
  /\ ghost' = ExplicitStart
  /\ UNCHANGED <<server, procs, connections, order, bridges, timers, faults, usedIds, handlers>>

\* a startServer that returns only when Running, and starts a Starting
\* server a second time
startServer_already_respawn(t) ==
  /\ At(t, "startServer", "begin")
  /\ Registered(ServerId)
  /\ server.status \in {"running", "starting"}
  /\ IF server.status = "starting" /\ server.kind = "stdio" /\ Len(procs) < MaxSpawns
       THEN /\ procs' = Append(procs, NewProc(server.env, "supervisor"))
            /\ tasks' = WithTop(t, [Top(t) EXCEPT !.pc = "await_adapter",
                                                  !.p = Len(procs) + 1])
            /\ event' = [kind |-> "spawn", by |-> "supervisor", via |-> Top(t).via,
                         p |-> Len(procs) + 1]
            /\ Release
       ELSE /\ procs' = procs
            /\ Return(t, "ok")
  /\ UNCHANGED <<server, connections, order, bridges, timers, faults, usedIds, ghost, handlers>>

\* startServer, manager.ts 58: getServer throws, outside the try
startServer_notFound(t) ==
  /\ At(t, "startServer", "begin")
  /\ ~Registered(ServerId)
  /\ Return(t, "err")
  /\ UNCHANGED <<server, procs, connections, order, bridges, timers, faults, usedIds, ghost, handlers>>

\* startServer, manager.ts 57-82: the idempotent return
startServer_already(t) ==
  /\ At(t, "startServer", "begin")
  /\ Registered(ServerId)
  /\ server.status \in {"running", "starting"}
  /\ Return(t, "ok")
  /\ UNCHANGED <<server, procs, connections, order, bridges, timers, faults, usedIds, ghost, handlers>>

\* startServer, manager.ts 72-82: Starting, then the adapter is created and
\* started; a stdio adapter spawns the child before its first await
startServer_spawn(t) ==
  /\ At(t, "startServer", "begin")
  /\ Registered(ServerId)
  /\ server.status \notin {"running", "starting"}
  /\ server.kind # "sse"
  /\ server.kind = "stdio" => Len(procs) < MaxSpawns
  /\ server' = updateServerStatus(server, "starting", FALSE)
  /\ IF server.kind = "stdio"
       THEN /\ procs' = Append(procs, NewProc(server.env, "supervisor"))
            /\ tasks' = WithTop(t, [Top(t) EXCEPT !.pc = "await_adapter",
                                                  !.p = Len(procs) + 1])
            /\ event' = [kind |-> "spawn", by |-> "supervisor", via |-> Top(t).via,
                         p |-> Len(procs) + 1]
       ELSE /\ procs' = procs
            /\ tasks' = Goto(t, "await_adapter")
            /\ event' = NoEvent
  /\ Release
  /\ UNCHANGED <<connections, order, bridges, timers, faults, usedIds, ghost, handlers>>

\* startServer, manager.ts 126-138: createServerAdapter("sse") throws
\* without endpoint and response, or spawnProcess throws
startServer_createFails(t) ==
  /\ At(t, "startServer", "begin")
  /\ Registered(ServerId)
  /\ server.status \notin {"running", "starting"}
  /\ \/ server.kind = "sse" /\ faults' = faults
     \/ server.kind = "stdio" /\ faults < MaxFaults /\ faults' = faults + 1
  /\ server' = updateServerStatus(server, "error", TRUE)
  /\ Return(t, "err")
  /\ UNCHANGED <<procs, connections, order, bridges, timers, usedIds, ghost, handlers>>

\* startServer, manager.ts 84-125: the adapter started; process, exit
\* watcher, transport, Running, restart count reset
startServer_started(t) ==
  /\ Awaiting(t, "startServer", "await_adapter")
  /\ Registered(ServerId)
  /\ LET p == Top(t).p
         s1 == IF p # 0 THEN [server EXCEPT !.process = p] ELSE server
         s2 == [s1 EXCEPT !.transport = TRUE]
         s3 == updateServerStatus(s2, "running", FALSE)
     IN /\ server' = resetRestartCount(s3)
        /\ procs' = IF p # 0 THEN [procs EXCEPT ![p].watched = TRUE] ELSE procs
  /\ Return(t, "ok")
  /\ UNCHANGED <<connections, order, bridges, timers, faults, usedIds, ghost, handlers>>

\* startServer, manager.ts 90 / 116, 126-138: the server was unregistered
\* during the await: the registry's update throws, and so does the one of the
\* catch block; the child the adapter spawned is not watched
startServer_startedGone(t) ==
  /\ Awaiting(t, "startServer", "await_adapter")
  /\ ~Registered(ServerId)
  /\ Return(t, "err")
  /\ UNCHANGED <<server, procs, connections, order, bridges, timers, faults, usedIds, ghost, handlers>>

\* startServer, manager.ts 126-138: adapter.start() rejects
startServer_startFails(t) ==
  /\ Awaiting(t, "startServer", "await_adapter")
  /\ faults < MaxFaults
  /\ faults' = faults + 1
  /\ server' = IF Registered(ServerId) THEN updateServerStatus(server, "error", TRUE)
                                       ELSE server
  /\ Return(t, "err")
  /\ UNCHANGED <<procs, connections, order, bridges, timers, usedIds, ghost, handlers>>

\* ------------------------------------------------- process exit, timer
KillWaiters(p) ==
  {t \in Tasks : ~Free(t) /\ Top(t).fn = "stopServer" /\ Top(t).pc = "await_kill"
                 /\ Top(t).p = p}

RECURSIVE SetToSeq(_)
SetToSeq(S) ==
  IF S = {} THEN <<>>
  ELSE LET m == CHOOSE x \in S : \A y \in S : x <= y
       IN <<m>> \o SetToSeq(S \ {m})

\* the child exits: the exit watcher of startServer (manager.ts 93-112)
\* runs first, then the listener of killProcess (process.ts 94-97); the
\* watcher of a server that was unregistered throws at its first statement
ProcessExit(p) ==
  /\ Idle
  /\ p \in DOMAIN procs
  /\ procs[p].alive
  /\ LET watching == procs[p].watched /\ Registered(ServerId)
         restart == watching /\
                    shouldRestartServer(updateServerStatus(server, "stopped", FALSE))
         woken == SetToSeq(KillWaiters(p))
     IN /\ procs' = [procs EXCEPT ![p] = Exited(@)]
        /\ server' = IF ~watching THEN server
                     ELSE IF restart
                       THEN incrementRestartCount(updateServerStatus(server, "stopped", FALSE))
                       ELSE updateServerStatus(server, "stopped", FALSE)
        /\ timers' = IF restart THEN timers + 1 ELSE timers
        /\ tasks' = [t \in Tasks |->
                       IF t \in KillWaiters(p)
                         THEN [tasks[t] EXCEPT !.stack[Depth(t)].pc = "finish"]
                         ELSE tasks[t]]
        /\ running' = IF woken = <<>> THEN 0 ELSE Head(woken)
        /\ runq' = IF woken = <<>> THEN <<>> ELSE Tail(woken)
        /\ event' = [kind |-> "exit", p |-> p, during |-> server.status,
                     watched |-> procs[p].watched, restart |-> restart]
        /\ ghost' = Crash(p, KillWaiters(p))
  /\ UNCHANGED <<connections, order, bridges, faults, usedIds, handlers>>

\* the restart delay elapsed: setTimeout's callback calls startServer
\* (manager.ts 106-110)
RestartTimerFires ==
  /\ Idle
  /\ timers > 0
  /\ Free(TimerTask)
  /\ timers' = timers - 1
  /\ tasks' = [tasks EXCEPT ![TimerTask].stack =
                 <<[Frame("startServer", "begin") EXCEPT !.via = "timer"]>>,
                            ![TimerTask].ret = "none"]
  /\ Hold(TimerTask)
  /\ event' = NoEvent
  /\ UNCHANGED <<server, procs, connections, order, bridges, faults, usedIds, ghost, handlers>>

\* ------------------------------------------------ connection manager
Present(c) == connections[c].status # "absent"

\* ConnectionManager.updateConnectionStatus
updateConnectionStatus(conn, status, isError) ==
  [conn EXCEPT !.status = status,
               !.error = IF isError THEN TRUE
                         ELSE IF status # "error" THEN FALSE ELSE @]

\* ConnectionManager.getConnectionsForServer, in the map's insertion order
getConnectionsForServer(sid) ==
  SelectSeq(order, LAMBDA c : connections[c].cfg.serverId = sid)

Remove(seq, c) == SelectSeq(seq, LAMBDA x : x # c)

\* the connections to server sid that are Connected, and a config without
\* its connection id
ConnectedTo(sid) ==
  {c \in ConnIds : connections[c].status = "connected" /\ connections[c].cfg.serverId = sid}
Client(cfg) == [serverId |-> cfg.serverId, transport |-> cfg.transport]

\* ------------------------------------------------ disconnectConnection
CallDisconnectConnection(t, c) ==
  /\ Idle /\ Slot(t)
  /\ tasks' = [tasks EXCEPT ![t].stack =
                 <<[Frame("disconnectConnection", "begin") EXCEPT !.c = c]>>,
                            ![t].ret = "none"]
  /\ Hold(t)
  /\ event' = NoEvent
  /\ UNCHANGED <<server, procs, connections, order, bridges, timers, faults, usedIds, ghost, handlers>>

\* manager.ts 403 / connection.ts 69-81: getConnection throws
disconnectConnection_notFound(t) ==
  /\ At(t, "disconnectConnection", "begin")
  /\ ~Present(Top(t).c)
  /\ Return(t, "err")
  /\ UNCHANGED <<server, procs, connections, order, bridges, timers, faults, usedIds, ghost, handlers>>

\* a disconnect that marks a Disconnecting connection Disconnected at once
disconnectConnection_already_forces(t) ==
  /\ At(t, "disconnectConnection", "begin")
  /\ connections[Top(t).c].status \in {"disconnected", "disconnecting"}
  /\ connections' = [connections EXCEPT ![Top(t).c] =
                       updateConnectionStatus(@, "disconnected", FALSE)]
  /\ Return(t, "ok")
  /\ UNCHANGED <<server, procs, order, bridges, timers, faults, usedIds, ghost, handlers>>

\* manager.ts 405-413
disconnectConnection_already(t) ==
  /\ At(t, "disconnectConnection", "begin")
  /\ connections[Top(t).c].status \in {"disconnected", "disconnecting"}
  /\ Return(t, "ok")
  /\ UNCHANGED <<server, procs, connections, order, bridges, timers, faults, usedIds, ghost, handlers>>

\* manager.ts 417-435 with no handler in the map: no await on the way
disconnectConnection_noBridge(t) ==
  /\ At(t, "disconnectConnection", "begin")
  /\ Present(Top(t).c)
  /\ connections[Top(t).c].status \notin {"disconnected", "disconnecting"}
  /\ Top(t).c \notin bridges
  /\ connections' = [connections EXCEPT ![Top(t).c] =
                       updateConnectionStatus(@, "disconnected", FALSE)]
  /\ Return(t, "ok")
  /\ UNCHANGED <<server, procs, order, bridges, timers, faults, usedIds, ghost, handlers>>

\* manager.ts 417-425: Disconnecting, then await bridge.stop()
disconnectConnection_stopBridge(t) ==
  /\ At(t, "disconnectConnection", "begin")
  /\ Present(Top(t).c)
  /\ connections[Top(t).c].status \notin {"disconnected", "disconnecting"}
  /\ Top(t).c \in bridges
  /\ connections' = [connections EXCEPT ![Top(t).c] =
                       updateConnectionStatus(@, "disconnecting", FALSE)]
  /\ Suspend(t, Top(t), "await_stop")
  /\ UNCHANGED <<server, procs, order, bridges, timers, faults, usedIds, ghost, handlers>>

\* a disconnect that drops every handler of the map with the one it stopped
disconnectConnection_stopped_all(t) ==
  /\ Awaiting(t, "disconnectConnection", "await_stop")
  /\ bridges' = {}
  /\ \E againC, againS \in BOOLEAN :
       handlers' = [handlers EXCEPT ![Top(t).c] = HandlerStopped(@, againC, againS)]
  /\ IF Present(Top(t).c)
       THEN /\ connections' = [connections EXCEPT ![Top(t).c] =
                                 updateConnectionStatus(@, "disconnected", FALSE)]
            /\ Return(t, "ok")
       ELSE /\ connections' = connections
            /\ Return(t, "err")
  /\ UNCHANGED <<server, procs, order, timers, faults, usedIds, ghost>>

\* manager.ts 426-435: the handler stopped; it leaves the map, Disconnected
disconnectConnection_stopped(t) ==
  /\ Awaiting(t, "disconnectConnection", "await_stop")
  /\ bridges' = bridges \ {Top(t).c}
  /\ \E againC, againS \in BOOLEAN :
       handlers' = [handlers EXCEPT ![Top(t).c] = HandlerStopped(@, againC, againS)]
  /\ IF Present(Top(t).c)
       THEN /\ connections' = [connections EXCEPT ![Top(t).c] =
                                 updateConnectionStatus(@, "disconnected", FALSE)]
            /\ Return(t, "ok")
       ELSE /\ connections' = connections
            /\ Return(t, "err")
  /\ UNCHANGED <<server, procs, order, timers, faults, usedIds, ghost>>

\* manager.ts 436-448: bridge.stop() rejects, in the stop of the client
\* adapter or, that one stopped, in the stop of the server adapter; the
\* handler stays in the map
disconnectConnection_stopFails(t) ==
  /\ Awaiting(t, "disconnectConnection", "await_stop")
  /\ faults < MaxFaults
  /\ faults' = faults + 1
  /\ \E failed \in {"client", "server"}, again \in BOOLEAN :
       handlers' = [handlers EXCEPT ![Top(t).c] =
                      IF failed = "server" THEN AdapterStop(@, "client", again) ELSE @]
  /\ connections' = IF Present(Top(t).c)
                      THEN [connections EXCEPT ![Top(t).c] =
                              updateConnectionStatus(@, "error", TRUE)]
                      ELSE connections
  /\ Return(t, "err")
  /\ UNCHANGED <<server, procs, order, bridges, timers, usedIds, ghost>>

\* ----------------------------------------------------------- stopServer
CallStopServer(t) ==
  /\ Idle /\ Slot(t)
  /\ tasks' = [tasks EXCEPT ![t].stack =
                 <<[Frame("stopServer", "begin") EXCEPT !.pend = timers > 0]>>,
                            ![t].ret = "none"]
  /\ Hold(t)
  /\ event' = NoEvent
  /\ ghost' = ExplicitStop
  /\ UNCHANGED <<server, procs, connections, order, bridges, timers, faults, usedIds, handlers>>

\* manager.ts 145: getServer throws, outside the try
stopServer_notFound(t) ==
  /\ At(t, "stopServer", "begin")
  /\ ~Registered(ServerId)
  /\ Return(t, "err")
  /\ UNCHANGED <<server, procs, connections, order, bridges, timers, faults, usedIds, ghost, handlers>>

\* manager.ts 147-155
stopServer_already(t) ==
  /\ At(t, "stopServer", "begin")
  /\ Registered(ServerId)
  /\ server.status \in {"stopped", "stopping"}
  /\ Return(t, "ok")
  /\ ghost' = OperatorStop(t)
  /\ UNCHANGED <<server, procs, connections, order, bridges, timers, faults, usedIds, handlers>>

\* manager.ts 159-164: Stopping, and the connections to disconnect
stopServer_begin(t) ==
  /\ At(t, "stopServer", "begin")
  /\ Registered(ServerId)
  /\ server.status \notin {"stopped", "stopping"}
  /\ server' = updateServerStatus(server, "stopping", FALSE)
  /\ tasks' = WithTop(t, [Top(t) EXCEPT !.pc = "loop",
                                        !.list = getConnectionsForServer(ServerId)])
  /\ Hold(t)
  /\ event' = [kind |-> "stopping", f |-> tasks[t].stack[1]]
  /\ UNCHANGED <<procs, connections, order, bridges, timers, faults, usedIds, ghost, handlers>>

\* a stop loop that passes over the next connection without disconnecting it
stopServer_disconnectNext_skip(t) ==
  /\ At(t, "stopServer", "loop")
  /\ Top(t).list # <<>>
  /\ tasks' = WithTop(t, [Top(t) EXCEPT !.list = Tail(@)])
  /\ Hold(t)
  /\ event' = NoEvent
  /\ UNCHANGED <<server, procs, connections, order, bridges, timers, faults, usedIds, ghost, handlers>>

\* manager.ts 166-172: disconnect the next connection; its failure is logged
stopServer_disconnectNext(t) ==
  /\ At(t, "stopServer", "loop")
  /\ Top(t).list # <<>>
  /\ tasks' = Push(t, [Top(t) EXCEPT !.list = Tail(@)],
                   [Frame("disconnectConnection", "begin") EXCEPT !.c = Head(Top(t).list)])
  /\ Hold(t)
  /\ event' = NoEvent
  /\ UNCHANGED <<server, procs, connections, order, bridges, timers, faults, usedIds, ghost, handlers>>

\* manager.ts 174-177: await server.transport.close()
stopServer_closeTransport(t) ==
  /\ At(t, "stopServer", "loop")
  /\ Top(t).list = <<>>
  /\ server.transport
  /\ Suspend(t, Top(t), "await_close")
  /\ UNCHANGED <<server, procs, connections, order, bridges, timers, faults, usedIds, ghost, handlers>>

\* manager.ts 175: no transport handle to close
stopServer_noTransport(t) ==
  /\ At(t, "stopServer", "loop")
  /\ Top(t).list = <<>>
  /\ ~server.transport
  /\ tasks' = Goto(t, "kill")
  /\ Hold(t)
  /\ event' = NoEvent
  /\ UNCHANGED <<server, procs, connections, order, bridges, timers, faults, usedIds, ghost, handlers>>

stopServer_closed(t) ==
  /\ Awaiting(t, "stopServer", "await_close")
  /\ tasks' = Goto(t, "kill")
  /\ Hold(t)
  /\ event' = NoEvent
  /\ UNCHANGED <<server, procs, connections, order, bridges, timers, faults, usedIds, ghost, handlers>>

\* manager.ts 192-204: transport.close() rejects
stopServer_closeFails(t) ==
  /\ Awaiting(t, "stopServer", "await_close")
  /\ faults < MaxFaults
  /\ faults' = faults + 1
  /\ server' = IF Registered(ServerId) THEN updateServerStatus(server, "error", TRUE)
                                       ELSE server
  /\ Return(t, "err")
  /\ UNCHANGED <<procs, connections, order, bridges, timers, usedIds, ghost, handlers>>

\* manager.ts 180-182, process.ts 79-108: SIGTERM, then wait for the child's
\* exit event (a child that already exited never emits it again)
stopServer_kill(t) ==
  /\ At(t, "stopServer", "kill")
  /\ server.process # 0
  /\ Suspend(t, [Top(t) EXCEPT !.p = server.process], "await_kill")
  /\ UNCHANGED <<server, procs, connections, order, bridges, timers, faults, usedIds, ghost, handlers>>

stopServer_noProcess(t) ==
  /\ At(t, "stopServer", "kill")
  /\ server.process = 0
  /\ tasks' = Goto(t, "finish")
  /\ Hold(t)
  /\ event' = NoEvent
  /\ UNCHANGED <<server, procs, connections, order, bridges, timers, faults, usedIds, ghost, handlers>>

\* manager.ts 185, 192-204: the server was unregistered during an await: the
\* registry's update throws, and so does the one of the catch block
stopServer_finishGone(t) ==
  /\ At(t, "stopServer", "finish")
  /\ ~Registered(ServerId)
  /\ Return(t, "err")
  /\ UNCHANGED <<server, procs, connections, order, bridges, timers, faults, usedIds, ghost, handlers>>

\* manager.ts 184-191: Stopped, process and transport handles cleared
stopServer_finish(t) ==
  /\ At(t, "stopServer", "finish")
  /\ Registered(ServerId)
  /\ server' = [updateServerStatus(server, "stopped", FALSE)
                  EXCEPT !.process = 0, !.transport = FALSE]
  /\ Return(t, "ok")
  /\ ghost' = OperatorStop(t)
  /\ UNCHANGED <<procs, connections, order, bridges, timers, faults, usedIds, handlers>>

\* ------------------------------------------------------ connectToServer
\* ConnectionManager.createConnection: a new instance, Disconnected
createConnection(cfg) ==
  [status |-> "disconnected", cfg |-> cfg, reconnectCount |-> 0, error |-> FALSE]

\* ConnectionManager.removeConnection: only a Disconnected instance is
\* removed; for any other status it throws and the map is unchanged
removeConnection(conns, c) ==
  IF conns[c].status = "disconnected" THEN [conns EXCEPT ![c] = NoConn] ELSE conns

\* the transport pairs connectToServer builds a handler for (manager.ts 292-346)
Bridgeable(client, srv) ==
  \/ client = "stdio" /\ srv = "sse"
  \/ client = "sse" /\ srv = "stdio"
  \/ client = "memory" /\ srv = "memory"

CallConnectToServer(t, cfg) ==
  /\ Idle /\ Slot(t)
  /\ cfg.id = 0 => ConnIds \ usedIds # {}
  /\ tasks' = [tasks EXCEPT ![t].stack =
                 <<[Frame("connectToServer", "begin") EXCEPT !.cfg = cfg]>>,
                            ![t].ret = "none"]
  /\ Hold(t)
  /\ event' = NoEvent
  /\ UNCHANGED <<server, procs, connections, order, bridges, timers, faults, usedIds, ghost, handlers>>

\* connection.ts 24-30: the id is taken; thrown outside connectToServer's try
connectToServer_exists(t) ==
  /\ At(t, "connectToServer", "begin")
  /\ Top(t).cfg.id # 0
  /\ Present(Top(t).cfg.id)
  /\ Return(t, "err")
  /\ UNCHANGED <<server, procs, connections, order, bridges, timers, faults, usedIds, ghost, handlers>>

\* manager.ts 254-255, connection.ts 21-46: reserve the instance under the
\* config's id, or under a fresh random id
connectToServer_create(t, id) ==
  /\ At(t, "connectToServer", "begin")
  /\ id \in ConnIds
  /\ ~Present(id)
  /\ IF Top(t).cfg.id # 0 THEN id = Top(t).cfg.id ELSE id \notin usedIds
  /\ connections' = [connections EXCEPT ![id] =
                       createConnection([Top(t).cfg EXCEPT !.id = id])]
  /\ order' = Append(order, id)
  /\ usedIds' = usedIds \cup {id}
  /\ tasks' = WithTop(t, [Top(t) EXCEPT
                  !.c = id,
                  !.pc = IF Top(t).delta = NoDelta THEN "ensure" ELSE "env"])
  /\ Hold(t)
  /\ event' = NoEvent
  /\ UNCHANGED <<server, procs, bridges, timers, faults, ghost, handlers>>

\* manager.ts 259: getServer throws inside the try
connectToServer_unknownServer(t) ==
  /\ At(t, "connectToServer", "ensure") \/ At(t, "connectToServer", "env")
  /\ ~Registered(Top(t).cfg.serverId)
  /\ tasks' = Throw(t, "SERVER_NOT_FOUND")
  /\ Hold(t)
  /\ event' = NoEvent
  /\ UNCHANGED <<server, procs, connections, order, bridges, timers, faults, usedIds, ghost, handlers>>

\* connectToServer called with the environmentVariables option
CallConnectToServerEnv(t, cfg, delta) ==
  /\ Idle /\ Slot(t)
  /\ cfg.id = 0 => ConnIds \ usedIds # {}
  /\ tasks' = [tasks EXCEPT ![t].stack =
                 <<[Frame("connectToServer", "begin") EXCEPT
                      !.cfg = cfg,
                      !.delta = delta,
                      !.wasRunning = server.status = "running",
                      !.snap = ConnectedTo(cfg.serverId)]>>,
                            ![t].ret = "none"]
  /\ Hold(t)
  /\ event' = NoEvent
  /\ UNCHANGED <<server, procs, connections, order, bridges, timers, faults, usedIds, ghost, handlers>>

\* manager.ts 262-273, registry.ts 175-192: the variables are merged; the
\* server is not Running, no restart
connectToServer_envNotRunning(t) ==
  /\ At(t, "connectToServer", "env")
  /\ Registered(Top(t).cfg.serverId)
  /\ server.status # "running"
  /\ server' = registryUpdateServerEnvironment(server, Top(t).delta)
  /\ tasks' = Goto(t, "ensure")
  /\ Hold(t)
  /\ event' = NoEvent
  /\ UNCHANGED <<procs, connections, order, bridges, timers, faults, usedIds, ghost, handlers>>

\* manager.ts 262-270: merged, the server is Running: stopServer
connectToServer_envRestart(t) ==
  /\ At(t, "connectToServer", "env")
  /\ Registered(Top(t).cfg.serverId)
  /\ server.status = "running"
  /\ server' = registryUpdateServerEnvironment(server, Top(t).delta)
  /\ tasks' = Push(t, [Top(t) EXCEPT !.pc = "ret_envstop"], Frame("stopServer", "begin"))
  /\ Hold(t)
  /\ event' = NoEvent
  /\ UNCHANGED <<procs, connections, order, bridges, timers, faults, usedIds, ghost, handlers>>

\* manager.ts 270-271: stopServer returned (or threw): startServer
connectToServer_envStopped(t) ==
  /\ At(t, "connectToServer", "ret_envstop")
  /\ IF tasks[t].ret = "err"
       THEN tasks' = Throw(t, "SERVER_STOP_FAILED") /\ ghost' = ghost
       ELSE /\ tasks' = Push(t, [Top(t) EXCEPT !.pc = "ret_envstart"],
                             Frame("startServer", "begin"))
            /\ ghost' = ExplicitStart
  /\ Hold(t)
  /\ event' = NoEvent
  /\ UNCHANGED <<server, procs, connections, order, bridges, timers, faults, usedIds, handlers>>

\* manager.ts 271-276: startServer returned (or threw)
connectToServer_envStarted(t) ==
  /\ At(t, "connectToServer", "ret_envstart")
  /\ tasks' = IF tasks[t].ret = "err" THEN Throw(t, "SERVER_START_FAILED")
                                       ELSE Goto(t, "ensure")
  /\ Hold(t)
  /\ event' = NoEvent
  /\ UNCHANGED <<server, procs, connections, order, bridges, timers, faults, usedIds, ghost, handlers>>

\* manager.ts 276-278: the server is not Running, start it
connectToServer_startServer(t) ==
  /\ At(t, "connectToServer", "ensure")
  /\ Registered(Top(t).cfg.serverId)
  /\ server.status # "running"
  /\ tasks' = Push(t, [Top(t) EXCEPT !.pc = "ret_start"], Frame("startServer", "begin"))
  /\ Hold(t)
  /\ event' = NoEvent
  /\ ghost' = ExplicitStart
  /\ UNCHANGED <<server, procs, connections, order, bridges, timers, faults, usedIds, handlers>>

connectToServer_isRunning(t) ==
  /\ At(t, "connectToServer", "ensure")
  /\ Registered(Top(t).cfg.serverId)
  /\ server.status = "running"
  /\ tasks' = Goto(t, "dispatch")
  /\ Hold(t)
  /\ event' = NoEvent
  /\ UNCHANGED <<server, procs, connections, order, bridges, timers, faults, usedIds, ghost, handlers>>

\* manager.ts 277: startServer returned, or threw into the catch block
connectToServer_afterStart(t) ==
  /\ At(t, "connectToServer", "ret_start")
  /\ tasks' = IF tasks[t].ret = "err" THEN Throw(t, "SERVER_START_FAILED")
                                       ELSE Goto(t, "dispatch")
  /\ Hold(t)
  /\ event' = NoEvent
  /\ UNCHANGED <<server, procs, connections, order, bridges, timers, faults, usedIds, ghost, handlers>>

\* manager.ts 283-360: the kind of the error thrown before any adapter is
\* created: getConnection's CONNECTION_NOT_FOUND (connection.ts 69-81), the
\* missing process of a stdio server, or INVALID_CONFIGURATION for missing
\* hints, for the same transport on both sides and for every other pair
RejectCause(c, client, srv) ==
  IF ~Present(c) THEN "CONNECTION_NOT_FOUND"
  ELSE IF client = "sse" /\ srv.kind = "stdio" THEN "SERVER_NOT_FOUND"
  ELSE "INVALID_CONFIGURATION"

\* manager.ts 283-360: Connecting, then a throw: the instance is gone, the
\* pair is not bridgeable, the hints are missing (no caller of this
\* repository passes them), or the stdio server has no process
connectToServer_reject(t) ==
  /\ At(t, "connectToServer", "dispatch")
  /\ \/ ~Present(Top(t).c)
     \/ ~Bridgeable(Top(t).cfg.transport, server.kind)
     \/ server.kind = "sse"
     \/ server.kind = "stdio" /\ server.process = 0
  /\ connections' = IF Present(Top(t).c)
                      THEN [connections EXCEPT ![Top(t).c] =
                              updateConnectionStatus(@, "connecting", FALSE)]
                      ELSE connections
  /\ tasks' = Throw(t, RejectCause(Top(t).c, Top(t).cfg.transport, server))
  /\ Hold(t)
  /\ event' = NoEvent
  /\ UNCHANGED <<server, procs, order, bridges, timers, faults, usedIds, ghost, handlers>>

\* manager.ts 283, 313-346, 363: Connecting, the adapters and the handler are
\* built and bridgeHandler.start() is awaited.  For a stdio server the
\* handler's server adapter is a new StdioServerAdapter, whose start()
\* spawns a child of its own (adapters/stdio.ts)
connectToServer_startHandler(t) ==
  /\ At(t, "connectToServer", "dispatch")
  /\ Present(Top(t).c)
  /\ Bridgeable(Top(t).cfg.transport, server.kind)
  /\ server.kind # "sse"
  /\ server.kind = "stdio" => server.process # 0 /\ Len(procs) < MaxSpawns
  /\ connections' = [connections EXCEPT ![Top(t).c] =
                       updateConnectionStatus(@, "connecting", FALSE)]
  /\ IF server.kind = "stdio"
       THEN /\ procs' = Append(procs, NewProc(server.env, "handler"))
            /\ tasks' = WithTop(t, [Top(t) EXCEPT !.pc = "await_handler",
                                                  !.p = Len(procs) + 1])
            /\ event' = [kind |-> "spawn", by |-> "handler", via |-> "api",
                         p |-> Len(procs) + 1]
       ELSE /\ procs' = procs
            /\ tasks' = Goto(t, "await_handler")
            /\ event' = NoEvent
  /\ handlers' = [handlers EXCEPT ![Top(t).c] = AdapterStart(NewHandler, "server")]
  /\ Release
  /\ UNCHANGED <<server, order, bridges, timers, faults, usedIds, ghost>>

\* manager.ts 365-376: the handler is stored, Connected, reconnect count 0
connectToServer_connected(t) ==
  /\ Awaiting(t, "connectToServer", "await_handler")
  /\ bridges' = bridges \cup {Top(t).c}
  /\ handlers' = [handlers EXCEPT ![Top(t).c] = HandlerStarted(@)]
  /\ IF Present(Top(t).c)
       THEN /\ connections' = [connections EXCEPT ![Top(t).c] =
                 [updateConnectionStatus(@, "connected", FALSE) EXCEPT !.reconnectCount = 0]]
            /\ Return(t, "ok")
       ELSE /\ connections' = connections
            /\ tasks' = Throw(t, "CONNECTION_NOT_FOUND")
            /\ Hold(t)
            /\ event' = NoEvent
  /\ UNCHANGED <<server, procs, order, timers, faults, usedIds, ghost>>

\* manager.ts 363, 377: bridgeHandler.start() rejects, in the start of the
\* server adapter or, that one started, in the start of the client adapter
\* (an adapter sets its transport before the await that rejects)
connectToServer_handlerFails(t) ==
  /\ Awaiting(t, "connectToServer", "await_handler")
  /\ faults < MaxFaults
  /\ faults' = faults + 1
  /\ \E failed \in {"server", "client"} :
       handlers' = [handlers EXCEPT ![Top(t).c] =
                      IF failed = "client" THEN HandlerStarted(@) ELSE @]
  /\ tasks' = Throw(t, "TRANSPORT_ERROR")
  /\ Hold(t)
  /\ event' = NoEvent
  /\ UNCHANGED <<server, procs, connections, order, bridges, timers, usedIds, ghost>>

\* manager.ts 377-396: Error, then removeConnection, whose throw is logged
connectToServer_catch(t) ==
  /\ At(t, "connectToServer", "catch")
  /\ LET c == Top(t).c
         failed == [connections EXCEPT ![c] = updateConnectionStatus(@, "error", TRUE)]
     IN IF Present(c)
          THEN /\ connections' = removeConnection(failed, c)
               /\ order' = IF removeConnection(failed, c)[c].status = "absent"
                             THEN Remove(order, c) ELSE order
          ELSE UNCHANGED <<connections, order>>
  /\ Return(t, "err")
  /\ UNCHANGED <<server, procs, bridges, timers, faults, usedIds, ghost, handlers>>

\* ---------------------------------------------- updateServerEnvironment
\* the request; the frame remembers what the caller could see when it began
CallUpdateServerEnvironment(t, delta) ==
  /\ Idle /\ Slot(t)
  /\ tasks' = [tasks EXCEPT ![t].stack =
                 <<[Frame("updateServerEnvironment", "begin") EXCEPT
                      !.delta = delta,
                      !.wasRunning = server.status = "running",
                      !.spawns0 = Len(procs),
                      !.snap = ConnectedTo(ServerId),
                      !.clients = {Client(connections[c].cfg) : c \in ConnectedTo(ServerId)},
                      !.all0 = {c \in ConnIds : connections[c].cfg.serverId = ServerId}]>>,
                            ![t].ret = "none"]
  /\ Hold(t)
  /\ event' = NoEvent
  /\ ghost' = HotSwapRequested
  /\ UNCHANGED <<server, procs, connections, order, bridges, timers, faults, usedIds, handlers>>

\* an update of a server that is not Running which stores only the delta,
\* dropping the rest of the environment, and marks the server Stopped
updateServerEnvironment_notRunning_reset(t) ==
  /\ At(t, "updateServerEnvironment", "begin")
  /\ Registered(ServerId)
  /\ server.status # "running"
  /\ server' = [server EXCEPT !.env = mergeEnv(DefaultEnv, Top(t).delta),
                              !.status = "stopped"]
  /\ Return(t, "ok")
  /\ UNCHANGED <<procs, connections, order, bridges, timers, faults, usedIds, ghost, handlers>>

\* manager.ts 213, registry.ts 176: getServer throws
updateServerEnvironment_notFound(t) ==
  /\ At(t, "updateServerEnvironment", "begin")
  /\ ~Registered(ServerId)
  /\ Return(t, "err")
  /\ UNCHANGED <<server, procs, connections, order, bridges, timers, faults, usedIds, ghost, handlers>>

\* manager.ts 213-215, registry.ts 187-191: merged, no restart needed
updateServerEnvironment_notRunning(t) ==
  /\ At(t, "updateServerEnvironment", "begin")
  /\ Registered(ServerId)
  /\ ~needsRestart(server)
  /\ server' = registryUpdateServerEnvironment(server, Top(t).delta)
  /\ Return(t, "ok")
  /\ UNCHANGED <<procs, connections, order, bridges, timers, faults, usedIds, ghost, handlers>>

\* manager.ts 213-222: merged; the connections and their configs are taken
updateServerEnvironment_needsRestart(t) ==
  /\ At(t, "updateServerEnvironment", "begin")
  /\ Registered(ServerId)
  /\ needsRestart(server)
  /\ server' = registryUpdateServerEnvironment(server, Top(t).delta)
  /\ LET conns == getConnectionsForServer(ServerId)
     IN tasks' = WithTop(t, [Top(t) EXCEPT
                   !.pc = "disconnect",
                   !.list = conns,
                   !.cfgs = [i \in 1 .. Len(conns) |-> connections[conns[i]].cfg]])
  /\ Hold(t)
  /\ event' = NoEvent
  /\ UNCHANGED <<procs, connections, order, bridges, timers, faults, usedIds, ghost, handlers>>

\* manager.ts 225-227
updateServerEnvironment_disconnectNext(t) ==
  /\ At(t, "updateServerEnvironment", "disconnect")
  /\ Top(t).list # <<>>
  /\ tasks' = Push(t, [Top(t) EXCEPT !.list = Tail(@), !.pc = "ret_disconnect"],
                   [Frame("disconnectConnection", "begin") EXCEPT !.c = Head(Top(t).list)])
  /\ Hold(t)
  /\ event' = NoEvent
  /\ UNCHANGED <<server, procs, connections, order, bridges, timers, faults, usedIds, ghost, handlers>>

\* manager.ts 226: a throw of disconnectConnection ends the call
updateServerEnvironment_afterDisconnect(t) ==
  /\ At(t, "updateServerEnvironment", "ret_disconnect")
  /\ IF tasks[t].ret = "err"
       THEN Return(t, "err")
       ELSE tasks' = Goto(t, "disconnect") /\ Hold(t) /\ event' = NoEvent
  /\ UNCHANGED <<server, procs, connections, order, bridges, timers, faults, usedIds, ghost, handlers>>

\* a hot-swap that does not wait for the disconnect loop to finish
updateServerEnvironment_stop_early(t) ==
  /\ At(t, "updateServerEnvironment", "disconnect")
  /\ tasks' = Push(t, [Top(t) EXCEPT !.pc = "ret_stop"], Frame("stopServer", "begin"))
  /\ Hold(t)
  /\ event' = NoEvent
  /\ UNCHANGED <<server, procs, connections, order, bridges, timers, faults, usedIds, ghost, handlers>>

\* manager.ts 230
updateServerEnvironment_stop(t) ==
  /\ At(t, "updateServerEnvironment", "disconnect")
  /\ Top(t).list = <<>>
  /\ tasks' = Push(t, [Top(t) EXCEPT !.pc = "ret_stop"], Frame("stopServer", "begin"))
  /\ Hold(t)
  /\ event' = NoEvent
  /\ UNCHANGED <<server, procs, connections, order, bridges, timers, faults, usedIds, ghost, handlers>>

\* manager.ts 230-231
updateServerEnvironment_start(t) ==
  /\ At(t, "updateServerEnvironment", "ret_stop")
  /\ IF tasks[t].ret = "err"
       THEN Return(t, "err") /\ ghost' = ghost
       ELSE /\ tasks' = Push(t, [Top(t) EXCEPT !.pc = "ret_start"],
                             Frame("startServer", "begin"))
            /\ Hold(t)
            /\ event' = NoEvent
            /\ ghost' = ExplicitStart
  /\ UNCHANGED <<server, procs, connections, order, bridges, timers, faults, usedIds, handlers>>

\* manager.ts 231-234
updateServerEnvironment_afterStart(t) ==
  /\ At(t, "updateServerEnvironment", "ret_start")
  /\ IF tasks[t].ret = "err"
       THEN Return(t, "err")
       ELSE tasks' = Goto(t, "reconnect") /\ Hold(t) /\ event' = NoEvent
  /\ UNCHANGED <<server, procs, connections, order, bridges, timers, faults, usedIds, ghost, handlers>>

\* manager.ts 234-236: connectToServer with the remembered config
updateServerEnvironment_reconnectNext(t) ==
  /\ At(t, "updateServerEnvironment", "reconnect")
  /\ Top(t).cfgs # <<>>
  /\ tasks' = Push(t, [Top(t) EXCEPT !.cfgs = Tail(@), !.pc = "ret_reconnect"],
                   [Frame("connectToServer", "begin") EXCEPT !.cfg = Head(Top(t).cfgs)])
  /\ Hold(t)
  /\ event' = [kind |-> "reconnect"]
  /\ UNCHANGED <<server, procs, connections, order, bridges, timers, faults, usedIds, ghost, handlers>>

\* manager.ts 235: a throw of connectToServer ends the call
updateServerEnvironment_afterReconnect(t) ==
  /\ At(t, "updateServerEnvironment", "ret_reconnect")
  /\ IF tasks[t].ret = "err"
       THEN Return(t, "err")
       ELSE tasks' = Goto(t, "reconnect") /\ Hold(t) /\ event' = NoEvent
  /\ UNCHANGED <<server, procs, connections, order, bridges, timers, faults, usedIds, ghost, handlers>>

\* manager.ts 238-240
updateServerEnvironment_done(t) ==
  /\ At(t, "updateServerEnvironment", "reconnect")
  /\ Top(t).cfgs = <<>>
  /\ Return(t, "ok")
  /\ UNCHANGED <<server, procs, connections, order, bridges, timers, faults, usedIds, ghost, handlers>>

\* ------------------------------------- DELETE /api/connections/:id
CallDeleteConnection(t, c) ==
  /\ Idle /\ Slot(t)
  /\ tasks' = [tasks EXCEPT ![t].stack =
                 <<[Frame("deleteConnection", "begin") EXCEPT !.c = c]>>,
                            ![t].ret = "none"]
  /\ Hold(t)
  /\ event' = NoEvent
  /\ UNCHANGED <<server, procs, connections, order, bridges, timers, faults, usedIds, ghost, handlers>>

\* connections.ts 130: getConnection throws
deleteConnection_notFound(t) ==
  /\ At(t, "deleteConnection", "begin")
  /\ ~Present(Top(t).c)
  /\ Return(t, "err")
  /\ UNCHANGED <<server, procs, connections, order, bridges, timers, faults, usedIds, ghost, handlers>>

\* connections.ts 133-136
deleteConnection_disconnect(t) ==
  /\ At(t, "deleteConnection", "begin")
  /\ Present(Top(t).c)
  /\ connections[Top(t).c].status # "disconnected"
  /\ tasks' = Push(t, [Top(t) EXCEPT !.pc = "remove"],
                   [Frame("disconnectConnection", "begin") EXCEPT !.c = Top(t).c])
  /\ Hold(t)
  /\ event' = NoEvent
  /\ UNCHANGED <<server, procs, connections, order, bridges, timers, faults, usedIds, ghost, handlers>>

\* connections.ts 135, 142: disconnectConnection threw
deleteConnection_disconnectFailed(t) ==
  /\ At(t, "deleteConnection", "remove")
  /\ tasks[t].ret = "err"
  /\ Return(t, "err")
  /\ UNCHANGED <<server, procs, connections, order, bridges, timers, faults, usedIds, ghost, handlers>>

\* connections.ts 139: removeConnection (after the disconnect, if any)
deleteConnection_remove(t) ==
  /\ \/ At(t, "deleteConnection", "remove") /\ tasks[t].ret # "err"
     \/ At(t, "deleteConnection", "begin") /\ Present(Top(t).c)
        /\ connections[Top(t).c].status = "disconnected"
  /\ LET c == Top(t).c
         after == IF Present(c) THEN removeConnection(connections, c) ELSE connections
         removed == Present(c) /\ after[c].status = "absent"
     IN /\ connections' = after
        /\ order' = IF removed THEN Remove(order, c) ELSE order
        /\ Return(t, IF removed THEN "ok" ELSE "err")
  /\ UNCHANGED <<server, procs, bridges, timers, faults, usedIds, ghost, handlers>>

\* ------------------------------- POST /api/connections/:id/reconnect
CallReconnectConnection(t, c) ==
  /\ Idle /\ Slot(t)
  /\ tasks' = [tasks EXCEPT ![t].stack =
                 <<[Frame("reconnectConnection", "begin") EXCEPT !.c = c]>>,
                            ![t].ret = "none"]
  /\ Hold(t)
  /\ event' = NoEvent
  /\ UNCHANGED <<server, procs, connections, order, bridges, timers, faults, usedIds, ghost, handlers>>

\* connections.ts 177: getConnection throws
reconnectConnection_notFound(t) ==
  /\ At(t, "reconnectConnection", "begin")
  /\ ~Present(Top(t).c)
  /\ Return(t, "err")
  /\ UNCHANGED <<server, procs, connections, order, bridges, timers, faults, usedIds, ghost, handlers>>

\* connections.ts 180-183: not Disconnected, disconnect first; the config of
\* the instance is the one the connect is called with
reconnectConnection_disconnect(t) ==
  /\ At(t, "reconnectConnection", "begin")
  /\ Present(Top(t).c)
  /\ connections[Top(t).c].status # "disconnected"
  /\ tasks' = Push(t, [Top(t) EXCEPT !.pc = "connect", !.cfg = connections[Top(t).c].cfg],
                   [Frame("disconnectConnection", "begin") EXCEPT !.c = Top(t).c])
  /\ Hold(t)
  /\ event' = NoEvent
  /\ UNCHANGED <<server, procs, connections, order, bridges, timers, faults, usedIds, ghost, handlers>>

\* connections.ts 182, 196: disconnectConnection threw
reconnectConnection_disconnectFailed(t) ==
  /\ At(t, "reconnectConnection", "connect")
  /\ tasks[t].ret = "err"
  /\ Return(t, "err")
  /\ UNCHANGED <<server, procs, connections, order, bridges, timers, faults, usedIds, ghost, handlers>>

\* connections.ts 186: connectToServer(connection.config), after the
\* disconnect if any; the config carries the connection's id
reconnectConnection_connect(t) ==
  /\ \/ At(t, "reconnectConnection", "connect") /\ tasks[t].ret # "err"
     \/ At(t, "reconnectConnection", "begin") /\ Present(Top(t).c)
        /\ connections[Top(t).c].status = "disconnected"
  /\ LET cfg == IF Top(t).pc = "begin" THEN connections[Top(t).c].cfg ELSE Top(t).cfg
     IN tasks' = Push(t, [Top(t) EXCEPT !.pc = "ret_connect", !.cfg = cfg],
                      [Frame("connectToServer", "begin") EXCEPT !.cfg = cfg])
  /\ Hold(t)
  /\ event' = NoEvent
  /\ UNCHANGED <<server, procs, connections, order, bridges, timers, faults, usedIds, ghost, handlers>>

\* connections.ts 186-198: the connect's outcome is the route's; after a
\* success getConnection(id) must find the instance
reconnectConnection_done(t) ==
  /\ At(t, "reconnectConnection", "ret_connect")
  /\ Return(t, IF tasks[t].ret = "err" \/ ~Present(Top(t).c) THEN "err" ELSE "ok")
  /\ UNCHANGED <<server, procs, connections, order, bridges, timers, faults, usedIds, ghost, handlers>>

\* ----------------------------------------- DELETE /api/servers/:id
CallDeleteServer(t) ==
  /\ Idle /\ Slot(t)
  /\ tasks' = [tasks EXCEPT ![t].stack =
                 <<[Frame("deleteServer", "begin") EXCEPT
                      !.wasRunning = server.status = "running",
                      !.snap = ConnectedTo(ServerId)]>>,
                            ![t].ret = "none"]
  /\ Hold(t)
  /\ event' = NoEvent
  /\ UNCHANGED <<server, procs, connections, order, bridges, timers, faults, usedIds, ghost, handlers>>

\* part_000 202: getServer throws
deleteServer_notFound(t) ==
  /\ At(t, "deleteServer", "begin")
  /\ ~Registered(ServerId)
  /\ ReturnFrom(t, WithTop(t, [Top(t) EXCEPT !.cause = "SERVER_NOT_FOUND"]), "err")
  /\ UNCHANGED <<server, procs, connections, order, bridges, timers, faults, usedIds, ghost, handlers>>

\* part_000 204-208: the server is not Stopped, stop it first
deleteServer_stop(t) ==
  /\ At(t, "deleteServer", "begin")
  /\ Registered(ServerId)
  /\ server.status # "stopped"
  /\ tasks' = Push(t, [Top(t) EXCEPT !.pc = "unregister"], Frame("stopServer", "begin"))
  /\ Hold(t)
  /\ event' = NoEvent
  /\ ghost' = ExplicitStop
  /\ UNCHANGED <<server, procs, connections, order, bridges, timers, faults, usedIds, handlers>>

\* part_000 207, 214: stopServer threw
deleteServer_stopFailed(t) ==
  /\ At(t, "deleteServer", "unregister")
  /\ tasks[t].ret = "err"
  /\ ReturnFrom(t, WithTop(t, [Top(t) EXCEPT !.cause = "SERVER_STOP_FAILED"]), "err")
  /\ UNCHANGED <<server, procs, connections, order, bridges, timers, faults, usedIds, ghost, handlers>>

\* part_000 211, registry.ts 52-65: unregisterServer, after the stop if any
deleteServer_unregister(t) ==
  /\ \/ At(t, "deleteServer", "unregister") /\ tasks[t].ret # "err"
     \/ At(t, "deleteServer", "begin") /\ Registered(ServerId) /\ server.status = "stopped"
  /\ LET after == IF Registered(ServerId) THEN unregisterServer(server) ELSE server
         removed == Registered(ServerId) /\ ~after.registered
         cause == IF removed THEN "none"
                  ELSE IF Registered(ServerId) THEN "SERVER_STOP_FAILED"
                  ELSE "SERVER_NOT_FOUND"
     IN /\ server' = after
        /\ ReturnFrom(t, WithTop(t, [Top(t) EXCEPT !.cause = cause]),
                      IF removed THEN "ok" ELSE "err")
  /\ UNCHANGED <<procs, connections, order, bridges, timers, faults, usedIds, ghost, handlers>>

\* ---------------------------------------------------------------- Next
\* the configs a caller connects with
ClientConfigs ==
  {[id |-> i, serverId |-> sid, transport |-> tr] :
     i \in {0} \cup ConnIds, sid \in {ServerId, UnknownServerId}, tr \in TransportType}

StartServerStep(t) ==
  \/ startServer_already(t)
  \/ startServer_spawn(t)
  \/ startServer_createFails(t)
  \/ startServer_started(t)
  \/ startServer_startFails(t)

DisconnectStep(t) ==
  \/ disconnectConnection_notFound(t)
  \/ disconnectConnection_already(t)
  \/ disconnectConnection_noBridge(t)
  \/ disconnectConnection_stopBridge(t)
  \/ disconnectConnection_stopped(t)
  \/ disconnectConnection_stopFails(t)

StopServerStep(t) ==
  \/ stopServer_already(t)
  \/ stopServer_begin(t)
  \/ stopServer_disconnectNext(t)
  \/ stopServer_closeTransport(t)
  \/ stopServer_noTransport(t)
  \/ stopServer_closed(t)
  \/ stopServer_closeFails(t)
  \/ stopServer_kill(t)
  \/ stopServer_noProcess(t)
  \/ stopServer_finish(t)

ConnectStep(t) ==
  \/ connectToServer_exists(t)
  \/ \E id \in ConnIds : connectToServer_create(t, id)
  \/ connectToServer_unknownServer(t)
  \/ connectToServer_startServer(t)
  \/ connectToServer_isRunning(t)
  \/ connectToServer_afterStart(t)
  \/ connectToServer_reject(t)
  \/ connectToServer_startHandler(t)
  \/ connectToServer_connected(t)
  \/ connectToServer_handlerFails(t)
  \/ connectToServer_catch(t)

ConnectEnvStep(t) ==
  \/ connectToServer_envNotRunning(t)
  \/ connectToServer_envRestart(t)
  \/ connectToServer_envStopped(t)
  \/ connectToServer_envStarted(t)

UpdateEnvStep(t) ==
  \/ updateServerEnvironment_notRunning(t)
  \/ updateServerEnvironment_needsRestart(t)
  \/ updateServerEnvironment_disconnectNext(t)
  \/ updateServerEnvironment_afterDisconnect(t)
  \/ updateServerEnvironment_stop(t)
  \/ updateServerEnvironment_start(t)
  \/ updateServerEnvironment_afterStart(t)
  \/ updateServerEnvironment_reconnectNext(t)
  \/ updateServerEnvironment_afterReconnect(t)
  \/ updateServerEnvironment_done(t)

DeleteStep(t) ==
  \/ deleteConnection_notFound(t)
  \/ deleteConnection_disconnect(t)
  \/ deleteConnection_disconnectFailed(t)
  \/ deleteConnection_remove(t)

Environment ==
  \/ \E p \in 1 .. MaxSpawns : ProcessExit(p)
  \/ RestartTimerFires

\* every request, step and event of the bridge
Next ==
  \/ \E t \in ApiTasks : CallStartServer(t)
  \/ \E t \in ApiTasks : CallStopServer(t)
  \/ \E t \in ApiTasks, c \in ConnIds : CallDisconnectConnection(t, c)
  \/ \E t \in ApiTasks, cfg \in ClientConfigs : CallConnectToServer(t, cfg)
  \/ \E t \in ApiTasks, cfg \in ClientConfigs, d \in Deltas : CallConnectToServerEnv(t, cfg, d)
  \/ \E t \in ApiTasks, d \in Deltas : CallUpdateServerEnvironment(t, d)
  \/ \E t \in ApiTasks, c \in ConnIds : CallDeleteConnection(t, c)
  \/ \E t \in Tasks : StartServerStep(t)
  \/ \E t \in Tasks : StopServerStep(t)
  \/ \E t \in Tasks : DisconnectStep(t)
  \/ \E t \in Tasks : ConnectStep(t)
  \/ \E t \in Tasks : ConnectEnvStep(t)
  \/ \E t \in Tasks : UpdateEnvStep(t)
  \/ \E t \in Tasks : DeleteStep(t)
  \/ Environment

\* ------------------------------------------------------- the supervisor
\* start and stop requests of the callers C, process exits, restart timers
SupervisorNext(C) ==
  \/ \E t \in C : CallStartServer(t)
  \/ \E t \in C : CallStopServer(t)
  \/ \E t \in Tasks : startServer_already(t)
  \/ \E t \in Tasks : startServer_spawn(t)
  \/ \E t \in Tasks : startServer_createFails(t)
  \/ \E t \in Tasks : startServer_started(t)
  \/ \E t \in Tasks : startServer_startFails(t)
  \/ \E t \in Tasks : stopServer_already(t)
  \/ \E t \in Tasks : stopServer_begin(t)
  \/ \E t \in Tasks : stopServer_closeTransport(t)
  \/ \E t \in Tasks : stopServer_noTransport(t)
  \/ \E t \in Tasks : stopServer_closed(t)
  \/ \E t \in Tasks : stopServer_closeFails(t)
  \/ \E t \in Tasks : stopServer_kill(t)
  \/ \E t \in Tasks : stopServer_noProcess(t)
  \/ \E t \in Tasks : stopServer_finish(t)
  \/ \E p \in 1 .. MaxSpawns : ProcessExit(p)
  \/ RestartTimerFires

NextSupervisor == SupervisorNext(ApiTasks)
SpecSupervisor == Init /\ [][NextSupervisor]_vars

\* one operator and a stdio server registered with autoRestart and
\* maxRestarts = N; the operator's requests are recorded in the history
InitCrash ==
  /\ \E mr \in 0 .. MaxRestartsBound : server = InitServer("stdio", TRUE, mr)
  /\ ghost = [NoHistory EXCEPT !.track = "requests"]
  /\ InitRest

NextCrash == SupervisorNext({1})
SpecCrash == InitCrash /\ [][NextCrash]_vars

\* no call, continuation or restart timer is in flight
AtRest == Idle /\ timers = 0 /\ \A t \in Tasks : Free(t)

\* C3: a stdio server registered with autoRestart and maxRestarts = N, started
\* once and never stopped, whose process exits after every successful start,
\* is spawned exactly N + 1 times: never more, and once it rests Stopped with
\* every child gone it has restartCount = N and N + 1 spawns
C3_RestartLoopBounded ==
  (ghost.starts = 1 /\ ghost.stops = 0 /\ faults = 0) =>
     /\ Cardinality(SupervisorSpawns) <= server.maxRestarts + 1
     /\ (AtRest /\ server.status = "stopped" /\ \A p \in DOMAIN procs : ~procs[p].alive) =>
          /\ server.restartCount = server.maxRestarts
          /\ Cardinality(SupervisorSpawns) = server.maxRestarts + 1

\* C4: an exit observed while the server is Stopping schedules no restart
\* (restartCount is not incremented, no timer is set), and after the
\* operator's stopServer returned the server stays Stopped until an explicit
\* start
C4_ExitWhileStoppingAbsorbed ==
  /\ (event.kind = "exit" /\ event.watched /\ event.during = "stopping") => ~event.restart
  /\ ghost.stopped = "yes" => server.status = "stopped"

\* C5: when stopServer was called with a delayed restart pending and has
\* returned, the server stays Stopped until an explicit start: the pending
\* restart spawns nothing
C5_PendingRestartCancelledByStop ==
  ghost.stopped = "pending" => server.status = "stopped"

\* C9, the half from left to right of "at rest, status = Stopped if and
\* only if both handles are absent": a server at rest in Stopped has neither
\* a process handle nor a transport handle
C9_StoppedHasNoHandles ==
  (AtRest /\ server.status = "stopped") => (server.process = 0 /\ ~server.transport)


\* ------------------------------------------------ connection scenarios
\* a stdio server without autoRestart
InitStdio(track) ==
  /\ server = InitServer("stdio", FALSE, NoMax)
  /\ ghost = [NoHistory EXCEPT !.track = track]
  /\ InitRest

\* the configs posted: an sse client of the server (random id, or the id 1
\* chosen by the caller), of an unknown server, and a client whose transport
\* cannot be bridged to a stdio server
ConnConfigs ==
  { [id |-> 0, serverId |-> ServerId, transport |-> "sse"],
    [id |-> 1, serverId |-> ServerId, transport |-> "sse"],
    [id |-> 0, serverId |-> UnknownServerId, transport |-> "sse"],
    [id |-> 0, serverId |-> ServerId, transport |-> "memory"] }

\* one caller connects, disconnects, deletes, starts and stops; children exit
ConnNext(C) ==
  \/ \E t \in C : CallStartServer(t)
  \/ \E t \in C : CallStopServer(t)
  \/ \E t \in C, c \in ConnIds : CallDisconnectConnection(t, c)
  \/ \E t \in C, cfg \in ConnConfigs : CallConnectToServer(t, cfg)
  \/ \E t \in C, c \in ConnIds : CallDeleteConnection(t, c)
  \/ \E t \in Tasks : StartServerStep(t)
  \/ \E t \in Tasks : StopServerStep(t)
  \/ \E t \in Tasks : DisconnectStep(t)
  \/ \E t \in Tasks : ConnectStep(t)
  \/ \E t \in Tasks : DeleteStep(t)
  \/ \E p \in 1 .. MaxSpawns : ProcessExit(p)

NextConn == ConnNext({1})
SpecConn == InitStdio("none") /\ [][NextConn]_vars

\* ---------------------------------------------------- hot-swap scenarios
SwapDeltas == { [k \in {"X"} |-> "1"], [k \in {"X"} |-> "2"] }
SseClient == [id |-> 0, serverId |-> ServerId, transport |-> "sse"]

\* the state after startServer and k successful connectToServer(SseClient)
\* calls: the server's child is process 1, the handlers' children are 2..k+1
\* (SpecConn reaches this state from the registration state for k = 0, 1, 2)
Bridged(k, track) ==
  /\ server = [InitServer("stdio", FALSE, NoMax) EXCEPT
                 !.status = "running", !.process = 1, !.transport = TRUE]
  /\ procs = [p \in 1 .. k + 1 |->
                IF p = 1 THEN [NewProc(DefaultEnv, "supervisor") EXCEPT !.watched = TRUE]
                         ELSE NewProc(DefaultEnv, "handler")]
  /\ connections = [c \in ConnIds |->
                      IF c <= k
                        THEN [createConnection([SseClient EXCEPT !.id = c])
                                EXCEPT !.status = "connected"]
                        ELSE NoConn]
  /\ order = [c \in 1 .. k |-> c]
  /\ bridges = 1 .. k
  /\ handlers = [c \in ConnIds |-> IF c <= k THEN HandlerStarted(NewHandler)
                                             ELSE NoHandler]
  /\ usedIds = 1 .. k
  /\ timers = 0
  /\ tasks = [t \in Tasks |-> [stack |-> <<>>, ret |-> "none"]]
  /\ running = 0
  /\ runq = <<>>
  /\ faults = 0
  /\ event = NoEvent
  /\ ghost = [NoHistory EXCEPT !.track = track]

InitSwap == \E k \in 0 .. NConn : k + 1 <= MaxSpawns /\ Bridged(k, "crashes")

\* a child spawned by startServer exits
ServerExit(p) ==
  /\ p \in SupervisorSpawns
  /\ ProcessExit(p)

\* the steps a hot-swap of the bridged server takes
SwapSteps ==
  \/ \E t \in Tasks : UpdateEnvStep(t)
  \/ \E t \in Tasks : disconnectConnection_already(t)
  \/ \E t \in Tasks : disconnectConnection_stopBridge(t)
  \/ \E t \in Tasks : disconnectConnection_stopped(t)
  \/ \E t \in Tasks : disconnectConnection_stopFails(t)
  \/ \E t \in Tasks : stopServer_already(t)
  \/ \E t \in Tasks : stopServer_begin(t)
  \/ \E t \in Tasks : stopServer_disconnectNext(t)
  \/ \E t \in Tasks : stopServer_closeTransport(t)
  \/ \E t \in Tasks : stopServer_closed(t)
  \/ \E t \in Tasks : stopServer_closeFails(t)
  \/ \E t \in Tasks : stopServer_kill(t)
  \/ \E t \in Tasks : stopServer_finish(t)
  \/ \E t \in Tasks : startServer_spawn(t)
  \/ \E t \in Tasks : startServer_createFails(t)
  \/ \E t \in Tasks : startServer_started(t)
  \/ \E t \in Tasks : startServer_startFails(t)
  \/ \E t \in Tasks : connectToServer_exists(t)
  \/ \E p \in 1 .. MaxSpawns : ServerExit(p)

\* one caller posts environment deltas; the server's child may exit
NextSwap ==
  \/ \E d \in SwapDeltas : CallUpdateServerEnvironment(1, d)
  \/ SwapSteps
SpecSwap == InitSwap /\ [][NextSwap]_vars

\* two callers post environment deltas, so that one call can run while the
\* other is suspended (a stop that finds the handles already cleared)
NextSwap2 ==
  \/ \E t \in ApiTasks, d \in SwapDeltas : CallUpdateServerEnvironment(t, d)
  \/ SwapSteps
  \/ \E t \in Tasks : stopServer_noTransport(t)
  \/ \E t \in Tasks : stopServer_noProcess(t)
SpecSwap2 == InitSwap /\ [][NextSwap2]_vars

\* task t is inside an updateServerEnvironment call made on a Running server
HotSwap(t) ==
  /\ ~Free(t)
  /\ Stack(t)[1].fn = "updateServerEnvironment"
  /\ Stack(t)[1].wasRunning
  /\ Stack(t)[1].pc # "begin"

\* the last step was the return of an updateServerEnvironment call made on a
\* Running server
HotSwapReturned ==
  /\ event.kind = "return"
  /\ event.fn = "updateServerEnvironment"
  /\ event.f.wasRunning

EnvHas(env, delta) == \A k \in DOMAIN delta : env[k] = delta[k]
ConnectedClients == {Client(connections[c].cfg) : c \in ConnectedTo(ServerId)}

\* C1: whenever updateServerEnvironment, called on a Running server, returns
\* without error, (a) config.env maps every key of the delta to the delta's
\* value, (b) the server is Running, (c) every client config that had a
\* Connected connection when the call began has a Connected connection
C1_HotSwapPostcondition ==
  (HotSwapReturned /\ event.res = "ok") =>
     /\ EnvHas(server.env, event.f.delta)
     /\ server.status = "running"
     /\ event.f.clients \subseteq ConnectedClients

\* C2: from a Running server with one Connected connection, with no failure
\* and no crash, updateServerEnvironment returns without error, has spawned
\* the server exactly once, and ends with a Connected connection for the
\* client and with config.env containing the delta
C2_HotSwapScenario ==
  (HotSwapReturned /\ Cardinality(event.f.snap) = 1 /\ faults = 0 /\ ~ghost.crashed) =>
     /\ event.res = "ok"
     /\ Cardinality({p \in SupervisorSpawns : p > event.f.spawns0}) = 1
     /\ event.f.clients \subseteq ConnectedClients
     /\ EnvHas(server.env, event.f.delta)

\* C7: at no suspension point of a hot-swap is the server Running on a live
\* process launched without the delta while a connection to it is Connected
C7_NoStaleServerWithLiveConnections ==
  \A t \in Tasks :
    (HotSwap(t) /\ Idle) =>
       ~ /\ server.status = "running"
         /\ Alive(server.process)
         /\ ~EnvHas(procs[server.process].env, Stack(t)[1].delta)
         /\ ConnectedTo(ServerId) # {}

\* until the hot-swap has stopped the server, a status other than Running
\* finds every connection that existed when the call began Disconnected
DisconnectedBeforeLeavingRunning(t) ==
  (/\ HotSwap(t)
   /\ Stack(t)[1].pc \in {"disconnect", "ret_disconnect", "ret_stop"}
   /\ server.status # "running") =>
     \A c \in Stack(t)[1].all0 : connections[c].status = "disconnected"

\* the first (and every) reconnecting connectToServer begins with the server
\* Running
RunningBeforeReconnect == event.kind = "reconnect" => server.status = "running"

C6_FailedConnectLeavesNothing ==
  (/\ event.kind = "return"
   /\ event.fn = "connectToServer"
   /\ event.res = "err"
   /\ event.f.c # 0) =>
     /\ ~Present(event.f.c)
     /\ event.f.c \notin bridges

\* C10: at rest a connection is Connected if and only if the handler map
\* holds a handler for its id
C10_ConnectedIffHandler ==
  AtRest => \A c \in ConnIds : connections[c].status = "connected" <=> c \in bridges

\* the last step was the return of a top-level call of fn
Returned(fn) == event.kind = "return" /\ event.fn = fn

\* C11: connectToServer builds a handler only for the pairs (stdio, sse),
\* (sse, stdio), (memory, memory); for any other pair, when nothing else
\* fails, it fails before an adapter is created (no handler child) and the
\* cause of its ConnectionFailed error is of kind TRANSPORT_NOT_SUPPORTED
C11_UnsupportedPairCause ==
  /\ \A t \in Tasks :
       (~Free(t) /\ Top(t).fn = "connectToServer" /\ Top(t).pc = "await_handler") =>
          Bridgeable(Top(t).cfg.transport, server.kind)
  /\ (/\ Returned("connectToServer")
      /\ event.f.c # 0
      /\ event.f.cfg.serverId = ServerId
      /\ ~Bridgeable(event.f.cfg.transport, server.kind)
      /\ faults = 0) =>
        /\ event.res = "err"
        /\ event.f.p = 0
        /\ event.f.cause = "TRANSPORT_NOT_SUPPORTED"

\* ------------------------------------------- connect against stop
\* two callers connect sse clients to the Running stdio server and stop it;
\* children exit
NextConnStop ==
  \/ \E t \in ApiTasks : CallConnectToServer(t, SseClient)
  \/ \E t \in ApiTasks : CallStopServer(t)
  \/ \E t \in Tasks : StartServerStep(t)
  \/ \E t \in Tasks : StopServerStep(t)
  \/ \E t \in Tasks : disconnectConnection_already(t)
  \/ \E t \in Tasks : disconnectConnection_noBridge(t)
  \/ \E t \in Tasks : disconnectConnection_stopBridge(t)
  \/ \E t \in Tasks : disconnectConnection_stopped(t)
  \/ \E t \in Tasks : disconnectConnection_stopFails(t)
  \/ \E t \in Tasks, id \in ConnIds : connectToServer_create(t, id)
  \/ \E t \in Tasks : connectToServer_startServer(t)
  \/ \E t \in Tasks : connectToServer_isRunning(t)
  \/ \E t \in Tasks : connectToServer_afterStart(t)
  \/ \E t \in Tasks : connectToServer_reject(t)
  \/ \E t \in Tasks : connectToServer_startHandler(t)
  \/ \E t \in Tasks : connectToServer_connected(t)
  \/ \E t \in Tasks : connectToServer_handlerFails(t)
  \/ \E t \in Tasks : connectToServer_catch(t)
  \/ \E p \in 1 .. MaxSpawns : ServerExit(p)

SpecConnStop == Bridged(0, "crashes") /\ [][NextConnStop]_vars

\* C12: whenever connectToServer returns a connection id, whatever other
\* operations on the server ran meanwhile (and even if no child crashed), the
\* server is Running, the connection is Connected with reconnectCount 0 and
\* the handler map holds a handler for the id
C12_ConnectPostcondition ==
  (Returned("connectToServer") /\ event.res = "ok" /\ ~ghost.crashed) =>
     /\ server.status = "running"
     /\ connections[event.f.c].status = "connected"
     /\ connections[event.f.c].reconnectCount = 0
     /\ event.f.c \in bridges

\* ------------------------------------ connect with environment variables
MemoryClient == [id |-> 0, serverId |-> ServerId, transport |-> "memory"]

\* the state after startServer of a memory server and k successful
\* connectToServer(MemoryClient) calls; a memory server has no child
\* (reachable from the registration state of a memory server for k = 0, 1)
BridgedMemory(k) ==
  /\ server = [InitServer("memory", FALSE, NoMax) EXCEPT
                 !.status = "running", !.transport = TRUE]
  /\ procs = <<>>
  /\ connections = [c \in ConnIds |->
                      IF c <= k
                        THEN [createConnection([MemoryClient EXCEPT !.id = c])
                                EXCEPT !.status = "connected"]
                        ELSE NoConn]
  /\ order = [c \in 1 .. k |-> c]
  /\ bridges = 1 .. k
  /\ handlers = [c \in ConnIds |-> IF c <= k THEN HandlerStarted(NewHandler)
                                             ELSE NoHandler]
  /\ usedIds = 1 .. k
  /\ timers = 0
  /\ tasks = [t \in Tasks |-> [stack |-> <<>>, ret |-> "none"]]
  /\ running = 0
  /\ runq = <<>>
  /\ faults = 0
  /\ event = NoEvent
  /\ ghost = NoHistory

InitConnEnv == \E k \in 0 .. NConn - 1 : BridgedMemory(k)

\* one caller connects memory clients with environment variables
NextConnEnv ==
  \/ \E d \in SwapDeltas : CallConnectToServerEnv(1, MemoryClient, d)
  \/ \E t \in Tasks, id \in ConnIds : connectToServer_create(t, id)
  \/ \E t \in Tasks : ConnectEnvStep(t)
  \/ \E t \in Tasks : connectToServer_startServer(t)
  \/ \E t \in Tasks : connectToServer_isRunning(t)
  \/ \E t \in Tasks : connectToServer_afterStart(t)
  \/ \E t \in Tasks : connectToServer_startHandler(t)
  \/ \E t \in Tasks : connectToServer_connected(t)
  \/ \E t \in Tasks : connectToServer_handlerFails(t)
  \/ \E t \in Tasks : connectToServer_catch(t)
  \/ \E t \in Tasks : startServer_spawn(t)
  \/ \E t \in Tasks : startServer_started(t)
  \/ \E t \in Tasks : startServer_startFails(t)
  \/ \E t \in Tasks : stopServer_begin(t)
  \/ \E t \in Tasks : stopServer_disconnectNext(t)
  \/ \E t \in Tasks : stopServer_closeTransport(t)
  \/ \E t \in Tasks : stopServer_closed(t)
  \/ \E t \in Tasks : stopServer_closeFails(t)
  \/ \E t \in Tasks : stopServer_noProcess(t)
  \/ \E t \in Tasks : stopServer_finish(t)
  \/ \E t \in Tasks : disconnectConnection_already(t)
  \/ \E t \in Tasks : disconnectConnection_noBridge(t)
  \/ \E t \in Tasks : disconnectConnection_stopBridge(t)
  \/ \E t \in Tasks : disconnectConnection_stopped(t)
  \/ \E t \in Tasks : disconnectConnection_stopFails(t)

SpecConnEnv == InitConnEnv /\ [][NextConnEnv]_vars

\* C13: when connectToServer with environment variables, called on a
\* Running server that has other Connected connections, returns
\* successfully, config.env contains the variables and every one of those
\* connections is Connected
C13_ConnectWithEnvKeepsOthers ==
  (/\ Returned("connectToServer")
   /\ event.res = "ok"
   /\ event.f.delta # NoDelta
   /\ event.f.wasRunning) =>
     /\ EnvHas(server.env, event.f.delta)
     /\ \A c \in event.f.snap : connections[c].status = "connected"

\* C14: connecting a client to a Running stdio server spawns no child: every
\* child ever spawned was spawned by a supervisor start, and a successful
\* connectToServer has spawned none
C14_ConnectSpawnsNoChild ==
  /\ \A p \in DOMAIN procs : procs[p].by = "supervisor"
  /\ (Returned("connectToServer") /\ event.res = "ok") => event.f.p = 0

\* ------------------------------------------------- disconnect scenarios
UnknownClient == [id |-> 0, serverId |-> UnknownServerId, transport |-> "sse"]

InitDisconnect == \E k \in 0 .. NConn : k + 1 <= MaxSpawns /\ Bridged(k, "none")

\* one caller disconnects connections of the bridged server, and makes
\* failed connects, which leave instances without a handler; children exit
NextDisconnect ==
  \/ \E c \in ConnIds : CallDisconnectConnection(1, c)
  \/ CallConnectToServer(1, UnknownClient)
  \/ \E t \in Tasks : DisconnectStep(t)
  \/ \E t \in Tasks, id \in ConnIds : connectToServer_create(t, id)
  \/ \E t \in Tasks : connectToServer_unknownServer(t)
  \/ \E t \in Tasks : connectToServer_catch(t)
  \/ \E p \in 1 .. MaxSpawns : ProcessExit(p)

SpecDisconnect == InitDisconnect /\ [][NextDisconnect]_vars

\* this step is taken by task t inside disconnectConnection
DisconnectStepOf(t) ==
  /\ ~Free(t)
  /\ Top(t).fn = "disconnectConnection"
  /\ tasks'[t] # tasks[t]

\* C15: no step of disconnectConnection(c) changes anything outside c: the
\* server's status, restartCount, process and transport handles (and every
\* other field) are unchanged, no process is spawned, and every other
\* connection keeps its instance and its handler
C15_DisconnectFrame ==
  [][\A t \in Tasks :
       DisconnectStepOf(t) =>
          /\ server' = server
          /\ procs' = procs
          /\ timers' = timers
          /\ \A c \in ConnIds \ {Top(t).c} :
               /\ connections'[c] = connections[c]
               /\ (c \in bridges') = (c \in bridges)]_vars

\* connection A was disconnected while connection B stays Connected with its
\* handler and the server Running
C15_Witness ==
  /\ Returned("disconnectConnection")
  /\ event.res = "ok"
  /\ connections[event.f.c].status = "disconnected"
  /\ event.f.c \notin bridges
  /\ server.status = "running"
  /\ \E c \in ConnIds \ {event.f.c} : connections[c].status = "connected" /\ c \in bridges

\* ------------------------------------------------------ start scenarios
\* start requests of two callers and of the restart timer, on a server of
\* any transport; children exit; nobody stops the server
NextStart ==
  \/ \E t \in ApiTasks : CallStartServer(t)
  \/ \E t \in Tasks : startServer_already(t)
  \/ \E t \in Tasks : startServer_spawn(t)
  \/ \E t \in Tasks : startServer_createFails(t)
  \/ \E t \in Tasks : startServer_started(t)
  \/ \E t \in Tasks : startServer_startFails(t)
  \/ \E p \in 1 .. MaxSpawns : ProcessExit(p)
  \/ RestartTimerFires

SpecStart == Init /\ [][NextStart]_vars

\* this step is taken by task t inside startServer
StartStepOf(t) ==
  /\ ~Free(t)
  /\ Top(t).fn = "startServer"
  /\ tasks'[t] # tasks[t]

\* a startServer call of task t is past its status check, awaiting its adapter
StartInFlight(t) ==
  /\ ~Free(t)
  /\ Top(t).fn = "startServer"
  /\ Top(t).pc = "await_adapter"

\* the step makes the innermost function of task t return without error
ReturnsOk(t) ==
  /\ Len(tasks'[t].stack) = Depth(t) - 1
  /\ IF Depth(t) = 1 THEN event'.kind = "return" /\ event'.res = "ok"
                     ELSE tasks'[t].ret = "ok"

\* C16: a startServer call that finds the server Running or Starting returns
\* success, changes no field of the server and spawns nothing; and a
\* startServer call spawns (one process) only while no other startServer call
\* is in flight, so overlapping calls on a Stopped server spawn one process
C16_StartIdempotent ==
  [][\A t \in Tasks :
       StartStepOf(t) =>
          /\ (Top(t).pc = "begin" /\ server.status \in {"running", "starting"}) =>
                /\ server' = server
                /\ procs' = procs
                /\ timers' = timers
                /\ ReturnsOk(t)
          /\ Len(procs') # Len(procs) =>
                /\ Len(procs') = Len(procs) + 1
                /\ server.status \notin {"running", "starting"}
                /\ \A u \in Tasks : ~StartInFlight(u)]_vars

\* a second startServer call returned success while the first call, which
\* spawned the only process, is still awaiting its adapter
C16_Witness ==
  /\ Returned("startServer")
  /\ event.res = "ok"
  /\ server.status = "starting"
  /\ Len(procs) = 1
  /\ \E t \in Tasks : StartInFlight(t) /\ Top(t).p = 1

\* ------------------------------------------------------- stop scenarios
InitStop == \E k \in 0 .. NConn : k + 1 <= MaxSpawns /\ Bridged(k, "none")

\* two callers stop and start the bridged server and disconnect its
\* connections; children exit
NextStop ==
  \/ \E t \in ApiTasks : CallStopServer(t)
  \/ \E t \in ApiTasks : CallStartServer(t)
  \/ \E t \in ApiTasks, c \in ConnIds : CallDisconnectConnection(t, c)
  \/ \E t \in Tasks : StopServerStep(t)
  \/ \E t \in Tasks : StartServerStep(t)
  \/ \E t \in Tasks : disconnectConnection_notFound(t)
  \/ \E t \in Tasks : disconnectConnection_already(t)
  \/ \E t \in Tasks : disconnectConnection_stopBridge(t)
  \/ \E t \in Tasks : disconnectConnection_stopped(t)
  \/ \E t \in Tasks : disconnectConnection_stopFails(t)
  \/ \E p \in 1 .. MaxSpawns : ServerExit(p)

SpecStop == InitStop /\ [][NextStop]_vars

\* task t is in stopServer and its disconnect loop is over: it is closing or
\* has closed the server adapter
PastDisconnectLoop(t) ==
  \E i \in 1 .. Depth(t) :
     /\ Stack(t)[i].fn = "stopServer"
     /\ \/ Stack(t)[i].pc \in {"await_close", "kill", "await_kill", "finish"}
        \/ Stack(t)[i].pc = "loop" /\ Stack(t)[i].list = <<>> /\ i = Depth(t)

\* some call of disconnectConnection(c) awaits the handler's stop
DisconnectInFlight(c) ==
  \E t \in Tasks :
     /\ ~Free(t)
     /\ Top(t).fn = "disconnectConnection"
     /\ Top(t).pc = "await_stop"
     /\ Top(t).c = c

C18_FailedHotSwapLeavesError ==
  (/\ Returned("updateServerEnvironment")
   /\ event.res = "err"
   /\ event.f.wasRunning
   /\ ~ghost.crashed) => server.status = "error"

\* ------------------------------------- environment of an idle server
\* a registered server, or a bridged one with room for one more start
InitIdle ==
  \/ Init
  \/ \E k \in 0 .. NConn : k + 2 <= MaxSpawns /\ Bridged(k, "none")

\* a caller posts a delta for the server while it is not Running
UpdateIdle(t, delta) ==
  /\ server.status # "running"
  /\ CallUpdateServerEnvironment(t, delta)

\* two callers start the server and post deltas while it is not Running;
\* children exit
NextIdle ==
  \/ \E t \in ApiTasks, delta \in Deltas : UpdateIdle(t, delta)
  \/ \E t \in Tasks : updateServerEnvironment_notRunning(t)
  \/ \E t \in ApiTasks : CallStartServer(t)
  \/ \E t \in Tasks : startServer_already(t)
  \/ \E t \in Tasks : startServer_spawn(t)
  \/ \E t \in Tasks : startServer_createFails(t)
  \/ \E t \in Tasks : startServer_started(t)
  \/ \E t \in Tasks : startServer_startFails(t)
  \/ \E p \in 1 .. MaxSpawns : ServerExit(p)
  \/ RestartTimerFires

SpecIdle == InitIdle /\ [][NextIdle]_vars

\* this step is taken by task t inside updateServerEnvironment
UpdateStepOf(t) ==
  /\ ~Free(t)
  /\ Top(t).fn = "updateServerEnvironment"
  /\ tasks'[t] # tasks[t]

\* C19: updateServerEnvironment on a server that is not Running returns
\* success having changed nothing but config.env, which afterwards contains
\* the delta: status, handles and restartCount are unchanged, nothing is
\* stopped, started or spawned, no connection or handler changes; and every
\* later start launches its process with the config.env of that moment
C19_IdleUpdateOnlyMerges ==
  [][\A t \in Tasks :
       /\ (UpdateStepOf(t) /\ server.status # "running") =>
             /\ server' = [server EXCEPT !.env = server'.env]
             /\ EnvHas(server'.env, Top(t).delta)
             /\ procs' = procs
             /\ connections' = connections
             /\ bridges' = bridges
             /\ timers' = timers
             /\ ReturnsOk(t)
       /\ (StartStepOf(t) /\ Len(procs') # Len(procs)) =>
             /\ Len(procs') = Len(procs) + 1
             /\ procs'[Len(procs')].env = server.env]_vars

\* a delta was posted while the server was not Running and one of its
\* connections stayed Connected; the start that followed has launched the
\* child with an environment that contains the delta
C19_Witness ==
  /\ event.kind = "spawn"
  /\ event.by = "supervisor"
  /\ \E delta \in Deltas :
        /\ EnvHas(procs[event.p].env, delta)
        /\ EnvHas(server.env, delta)
  /\ server.status = "starting"
  /\ \E c \in ConnIds : connections[c].status = "connected" /\ c \in bridges

\* ------------------------------------------------- the registry's merge
InitMerge ==
  /\ \E tr \in TransportType : server = InitServer(tr, FALSE, NoMax)
  /\ ghost = NoHistory
  /\ InitRest

\* a caller starts and stops a server without connections and posts deltas; a
\* second caller posts deltas while a request of the first is in flight, so
\* in every status the server takes; children exit
NextMerge ==
  \/ \E t \in ApiTasks, delta \in Deltas : CallUpdateServerEnvironment(t, delta)
  \/ CallStartServer(1)
  \/ CallStopServer(1)
  \/ \E t \in Tasks : updateServerEnvironment_notRunning(t)
  \/ \E t \in Tasks : updateServerEnvironment_needsRestart(t)
  \/ \E t \in Tasks : updateServerEnvironment_stop(t)
  \/ \E t \in Tasks : updateServerEnvironment_start(t)
  \/ \E t \in Tasks : updateServerEnvironment_afterStart(t)
  \/ \E t \in Tasks : updateServerEnvironment_done(t)
  \/ \E t \in Tasks : StartServerStep(t)
  \/ \E t \in Tasks : stopServer_already(t)
  \/ \E t \in Tasks : stopServer_begin(t)
  \/ \E t \in Tasks : stopServer_closeTransport(t)
  \/ \E t \in Tasks : stopServer_noTransport(t)
  \/ \E t \in Tasks : stopServer_closed(t)
  \/ \E t \in Tasks : stopServer_closeFails(t)
  \/ \E t \in Tasks : stopServer_kill(t)
  \/ \E t \in Tasks : stopServer_noProcess(t)
  \/ \E t \in Tasks : stopServer_finish(t)
  \/ \E p \in 1 .. MaxSpawns : ServerExit(p)

SpecMerge == InitMerge /\ [][NextMerge]_vars

\* task t is about to run the registry's merge
AtMerge(t) ==
  /\ ~Free(t)
  /\ Top(t).fn = "updateServerEnvironment"
  /\ Top(t).pc = "begin"
  /\ tasks'[t] # tasks[t]

\* the merge told task t that a restart is needed: the call goes on to the
\* restart instead of returning
RestartFollows(t) ==
  /\ Len(tasks'[t].stack) = Depth(t)
  /\ tasks'[t].stack[Depth(t)].pc = "disconnect"

\* C20: the registry's merge maps every key of the delta to the delta's value
\* and leaves every other key of config.env with its previous value, changes
\* no other field of the server, and returns true (a restart follows) if and
\* only if the server's status is Running
C20_MergeOverridesAndReports ==
  [][\A t \in Tasks :
       AtMerge(t) =>
          /\ \A k \in Keys :
                server'.env[k] = IF k \in DOMAIN Top(t).delta THEN Top(t).delta[k]
                                                             ELSE server.env[k]
          /\ server' = [server EXCEPT !.env = server'.env]
          /\ RestartFollows(t) <=> server.status = "running"
          /\ ~RestartFollows(t) => ReturnsOk(t)]_vars

\* a delta for X was merged into an env in which Y had been set: X has the
\* delta's value, Y kept its own, and the server, which is Running, is about
\* to be restarted
C20_Witness ==
  \E t \in Tasks :
     /\ ~Free(t)
     /\ Top(t).fn = "updateServerEnvironment"
     /\ Top(t).pc = "disconnect"
     /\ Top(t).delta = [k \in {"X"} |-> "2"]
     /\ server.env = [k \in Keys |-> IF k = "X" THEN "2" ELSE "1"]
     /\ server.status = "running"

\* C21: the registry's merge is rejected, config.env staying as it was,
\* whenever the server is Starting, Stopping or in Error
C21_MergeRejectedInTransition ==
  [][\A t \in Tasks :
       (AtMerge(t) /\ server.status \in {"starting", "stopping", "error"}) =>
          /\ server'.env = server.env
          /\ ~ReturnsOk(t)]_vars

\* ------------------------------------------------- deleting the server
DeleteServerStep(t) ==
  \/ deleteServer_notFound(t)
  \/ deleteServer_stop(t)
  \/ deleteServer_stopFailed(t)
  \/ deleteServer_unregister(t)

\* a stdio server bridged to at most one client, or a registered server of
\* any transport
InitDelete ==
  \/ \E k \in {0, 1} : Bridged(k, "none")
  \/ InitMerge

\* a caller deletes, stops and starts the server; a second caller deletes it
\* while a request of the first is in flight; children exit
NextDelete ==
  \/ \E t \in ApiTasks : CallDeleteServer(t)
  \/ CallStopServer(1)
  \/ CallStartServer(1)
  \/ \E t \in Tasks : DeleteServerStep(t)
  \/ \E t \in Tasks : StopServerStep(t)
  \/ \E t \in Tasks : stopServer_notFound(t)
  \/ \E t \in Tasks : stopServer_finishGone(t)
  \/ \E t \in Tasks : StartServerStep(t)
  \/ \E t \in Tasks : startServer_notFound(t)
  \/ \E t \in Tasks : startServer_startedGone(t)
  \/ \E t \in Tasks : disconnectConnection_already(t)
  \/ \E t \in Tasks : disconnectConnection_stopBridge(t)
  \/ \E t \in Tasks : disconnectConnection_stopped(t)
  \/ \E t \in Tasks : disconnectConnection_stopFails(t)
  \/ \E p \in 1 .. MaxSpawns : ServerExit(p)

SpecDelete == InitDelete /\ [][NextDelete]_vars

\* this step of task t runs the registry's unregisterServer
AtUnregister(t) ==
  /\ ~Free(t)
  /\ Top(t).fn = "deleteServer"
  /\ \/ Top(t).pc = "unregister" /\ tasks[t].ret # "err"
     \/ Top(t).pc = "begin" /\ server.status = "stopped"
  /\ Registered(ServerId)
  /\ tasks'[t] # tasks[t]

C23_DisconnectPostcondition ==
  [][\A t \in Tasks :
       DisconnectStepOf(t) =>
          LET c == Top(t).c
              done == Top(t).pc = "begin" /\ Present(c) /\
                      connections[c].status \in {"disconnected", "disconnecting"}
          IN /\ done =>
                   /\ ReturnsOk(t)
                   /\ connections' = connections
                   /\ bridges' = bridges
                   /\ order' = order
                   /\ server' = server
                   /\ procs' = procs
             /\ (ReturnsOk(t) /\ ~done) =>
                   /\ connections'[c].status = "disconnected"
                   /\ c \notin bridges'
                   /\ c \in bridges => Top(t).pc = "await_stop"]_vars

\* a disconnect of a Connected connection of the Running server returned
\* after the handler's stop: the handler left the map and the connection is
\* Disconnected
C23_Witness ==
  /\ Returned("disconnectConnection")
  /\ event.res = "ok"
  /\ event.f.pc = "await_stop"
  /\ connections[event.f.c].status = "disconnected"
  /\ event.f.c \notin bridges
  /\ server.status = "running"

\* C24: after the delete of a Running server with a Connected connection
\* returned with success (nothing having failed), the server is out of the
\* registry and so is the connection out of the connection map: a lookup of
\* either id fails with not-found
C24_DeleteServerRemovesBoth ==
  (/\ Returned("deleteServer")
   /\ event.res = "ok"
   /\ event.f.wasRunning
   /\ event.f.snap # {}
   /\ faults = 0) =>
     /\ ~Registered(ServerId)
     /\ \A c \in event.f.snap : ~Present(c)

\* -------------------------------------------- reconnecting a connection
\* one caller reconnects, disconnects and deletes connections of the bridged
\* server; children exit
NextReconnect ==
  \/ \E c \in ConnIds : CallReconnectConnection(1, c)
  \/ \E c \in ConnIds : CallDisconnectConnection(1, c)
  \/ \E c \in ConnIds : CallDeleteConnection(1, c)
  \/ \E t \in Tasks : reconnectConnection_notFound(t)
  \/ \E t \in Tasks : reconnectConnection_disconnect(t)
  \/ \E t \in Tasks : reconnectConnection_disconnectFailed(t)
  \/ \E t \in Tasks : reconnectConnection_connect(t)
  \/ \E t \in Tasks : reconnectConnection_done(t)
  \/ \E t \in Tasks : connectToServer_exists(t)
  \/ \E t \in Tasks : disconnectConnection_notFound(t)
  \/ \E t \in Tasks : disconnectConnection_already(t)
  \/ \E t \in Tasks : disconnectConnection_stopBridge(t)
  \/ \E t \in Tasks : disconnectConnection_stopped(t)
  \/ \E t \in Tasks : disconnectConnection_stopFails(t)
  \/ \E t \in Tasks : DeleteStep(t)
  \/ \E p \in 1 .. MaxSpawns : ServerExit(p)

SpecReconnect == InitSwap /\ [][NextReconnect]_vars

\* C25: the reconnect of an existing connection (no adapter or handler
\* failing, no child crashing) succeeds and leaves the connection Connected
\* with a handler in the handler map
C25_ReconnectSucceeds ==
  (/\ Returned("reconnectConnection")
   /\ event.f.pc = "ret_connect"
   /\ faults = 0
   /\ ~ghost.crashed) =>
     /\ event.res = "ok"
     /\ connections[event.f.c].status = "connected"
     /\ event.f.c \in bridges
\* ------------------------------------------------ frames through a handler
\* the connection whose handler's traffic is observed
WireConn == 1
WireClient == [SseClient EXCEPT !.id = WireConn]

\* base.ts 131-147 with part_003 134-157: the transport of the near adapter
\* delivers a frame; onmessage calls the handler's upcall, which hands the
\* frame to the far adapter's send before anything else can run.  A throw
\* of send reaches the near adapter's error upcall, which logs it
FrameArrives(c, d, f) ==
  /\ Idle
  /\ handlers[c][Near(d)] = "open"
  /\ Near(d) \in handlers[c].upcalls
  /\ Len(handlers[c].recv[d]) < MaxFrames
  /\ handlers' = [handlers EXCEPT ![c] = Forward(@, d, f)]
  /\ event' = [kind |-> "frame", c |-> c, dir |-> d,
               sent |-> CanSend(handlers[c], Far(d))]
  /\ UNCHANGED <<server, procs, connections, order, bridges, timers, tasks,
                 running, runq, faults, usedIds, ghost>>

\* base.ts 122-126, 153-157 with part_003 70-73, 90-93: the transport of an
\* adapter reports its close; the close upcall of the handler logs it
TransportCloses(c, side) ==
  /\ Idle
  /\ handlers[c][side] = "open"
  /\ handlers' = [handlers EXCEPT ![c] = [handleClose(@, side) EXCEPT ![side] = "ended"]]
  /\ event' = [kind |-> "adapterClose", c |-> c, side |-> side]
  /\ UNCHANGED <<server, procs, connections, order, bridges, timers, tasks,
                 running, runq, faults, usedIds, ghost>>

\* base.ts 113-117, 149-151 with part_003 65-68, 85-88: the transport of an
\* adapter reports an error; the error upcall of the handler logs it
TransportErrors(c, side) ==
  /\ Idle
  /\ handlers[c][side] = "open"
  /\ event' = [kind |-> "adapterError", c |-> c, side |-> side]
  /\ UNCHANGED <<server, procs, connections, order, bridges, timers, tasks,
                 running, runq, faults, usedIds, ghost, handlers>>

\* one caller connects and disconnects connection WireConn of a running
\* stdio server while frames arrive at both adapters of its handler and the
\* transports close or fail
InitWire == \E k \in {0, 1} : Bridged(k, "none")

\* the steps of the requests in flight
WireStep ==
  \/ \E t \in Tasks : connectToServer_exists(t)
  \/ \E t \in Tasks, id \in ConnIds : connectToServer_create(t, id)
  \/ \E t \in Tasks : connectToServer_isRunning(t)
  \/ \E t \in Tasks : connectToServer_startHandler(t)
  \/ \E t \in Tasks : connectToServer_connected(t)
  \/ \E t \in Tasks : connectToServer_handlerFails(t)
  \/ \E t \in Tasks : connectToServer_catch(t)
  \/ \E t \in Tasks : disconnectConnection_notFound(t)
  \/ \E t \in Tasks : disconnectConnection_already(t)
  \/ \E t \in Tasks : disconnectConnection_stopBridge(t)
  \/ \E t \in Tasks : disconnectConnection_stopped(t)
  \/ \E t \in Tasks : disconnectConnection_stopFails(t)

NextWire ==
  \/ CallConnectToServer(1, WireClient)
  \/ CallDisconnectConnection(1, WireConn)
  \/ WireStep
  \/ \E d \in Dirs, f \in Frames : FrameArrives(WireConn, d, f)
  \/ \E side \in {"client", "server"} : TransportCloses(WireConn, side)
  \/ \E side \in {"client", "server"} : TransportErrors(WireConn, side)

SpecWire == InitWire /\ [][NextWire]_vars

\* every request in flight goes on: the event loop runs a continuation that
\* is ready, and an awaited start or stop settles
SpecWireFair == SpecWire /\ WF_vars(WireStep)

IsPrefix(a, b) == Len(a) <= Len(b) /\ SubSeq(b, 1, Len(a)) = a

\* C26: in each direction of a connection the frames handed to the far
\* adapter's send are, at every moment, a prefix of the frames received from
\* the near adapter, and none is held back: a frame is handed over in the
\* step it arrives, whatever the other direction is doing
C26_ForwardInOrder ==
  \A c \in ConnIds, d \in Dirs :
    /\ IsPrefix(handlers[c].handed[d], handlers[c].recv[d])
    /\ handlers[c].handed[d] = handlers[c].recv[d]

\* two different frames were forwarded in one direction while frames went
\* the other way
C26_Witness ==
  /\ event.kind = "frame"
  /\ \E d \in Dirs :
       /\ Len(handlers[WireConn].handed[d]) = 2
       /\ handlers[WireConn].handed[d][1] # handlers[WireConn].handed[d][2]
       /\ \E e \in Dirs \ {d} : handlers[WireConn].handed[e] # <<>>

\* C27: when a handler was stopped (disconnectConnection awaited its stop and
\* returned) its client adapter is closed, its server adapter is not, and
\* none of its upcalls is left on an adapter
C27_StopClosesClientOnly ==
  (/\ Returned("disconnectConnection")
   /\ event.f.pc = "await_stop"
   /\ event.res = "ok") =>
     /\ handlers[event.f.c].client = "closed"
     /\ handlers[event.f.c].server # "closed"
     /\ handlers[event.f.c].upcalls = {}

\* the server adapter of WireConn's handler just closed or reported an error
\* while the connection was Connected
ServerSideFailed ==
  /\ event.kind \in {"adapterClose", "adapterError"}
  /\ event.c = WireConn
  /\ event.side = "server"
  /\ connections[WireConn].status = "connected"

\* C28: after the server adapter of a Connected connection's handler closes
\* or reports an error, the client adapter is stopped and the connection
\* leaves Connected; the close of the client adapter leaves the server
\* adapter open
C28_ServerCloseEndsConnection ==
  /\ [](ServerSideFailed =>
         <>(/\ connections[WireConn].status # "connected"
            /\ handlers[WireConn].client # "open"))
  /\ [][(/\ event'.kind = "adapterClose"
          /\ event'.side = "client"
          /\ handlers[WireConn].server = "open") =>
            handlers'[WireConn].server = "open"]_vars

\* C29: when connectToServer fails because the client adapter's start failed
\* after the server adapter had started, the server adapter is no longer
\* started when the failure is reported, and the child it spawned is gone
C29_FailedStartClosesAdapter ==
  (/\ Returned("connectToServer")
   /\ event.res = "err"
   /\ event.f.cause = "TRANSPORT_ERROR"
   /\ handlers[event.f.c].client # "none") =>
     /\ ~CanSend(handlers[event.f.c], "server")
     /\ event.f.p # 0 => ~Alive(event.f.p)

\* C30: the startServer of a restart timer that fires while the server is
\* unregistered or Stopping spawns no child and changes nothing of the
\* server, its registration included
C30_StaleRestartDropped ==
  [][(/\ At(TimerTask, "startServer", "begin")
      /\ ~Registered(ServerId) \/ server.status = "stopping"
      /\ tasks'[TimerTask] # tasks[TimerTask]) =>
        /\ procs' = procs
        /\ server' = server]_vars

\* C31: a startServer called by the restart timer that brings the server to
\* Running leaves restartCount at the value the crash incremented it to
C31_TimerStartKeepsCount ==
  [][(/\ Awaiting(TimerTask, "startServer", "await_adapter")
      /\ tasks'[TimerTask] # tasks[TimerTask]
      /\ server'.status = "running") =>
        server'.restartCount = server.restartCount]_vars

\* ------------------------------------ hot-swap with idle connections
\* one caller disconnects connections and hot-swaps the server
NextSwapIdle ==
  \/ \E d \in SwapDeltas : CallUpdateServerEnvironment(1, d)
  \/ \E c \in ConnIds : CallDisconnectConnection(1, c)
  \/ \E t \in Tasks : disconnectConnection_notFound(t)
  \/ SwapSteps

SpecSwapIdle == InitSwap /\ [][NextSwapIdle]_vars

\* C32: every connect the hot-swap attempts is for a connection that was
\* Connected to the server when updateServerEnvironment was called
C32_ReconnectsOnlyConnected ==
  [][\A t \in Tasks :
       (/\ At(t, "updateServerEnvironment", "reconnect")
        /\ Top(t).cfgs # <<>>
        /\ tasks'[t] # tasks[t]) =>
          Head(Top(t).cfgs).id \in Top(t).snap]_vars

\* --------------------------------------------- one adapter's lifetime
Sides == {"client", "server"}

\* the owner of an adapter calls its start() (TransportAdapter.start)
StartAdapter(c, side) ==
  /\ Idle
  /\ handlers[c][side] \in {"none", "closed"}
  /\ side \in handlers[c].upcalls
  /\ handlers' = [handlers EXCEPT ![c] = AdapterStart(@, side)]
  /\ event' = [kind |-> "adapterStart", c |-> c, side |-> side]
  /\ UNCHANGED <<server, procs, connections, order, bridges, timers, tasks,
                 running, runq, faults, usedIds, ghost>>

\* the owner of an adapter calls its stop() or close() (base.ts 33-46)
StopAdapter(c, side) ==
  /\ Idle
  /\ handlers[c][side] \in {"open", "ended"}
  /\ \E again \in BOOLEAN :
       handlers' = [handlers EXCEPT ![c] = AdapterStop(@, side, again)]
  /\ event' = [kind |-> "adapterStop", c |-> c, side |-> side]
  /\ UNCHANGED <<server, procs, connections, order, bridges, timers, tasks,
                 running, runq, faults, usedIds, ghost>>

\* the two adapters of a started handler are started, stopped and closed in
\* any order while frames arrive
NextAdapter ==
  \/ \E side \in Sides : StartAdapter(WireConn, side)
  \/ \E side \in Sides : StopAdapter(WireConn, side)
  \/ \E side \in Sides : TransportCloses(WireConn, side)
  \/ \E side \in Sides : TransportErrors(WireConn, side)
  \/ \E d \in Dirs, f \in Frames : FrameArrives(WireConn, d, f)

SpecAdapter == Bridged(1, "none") /\ [][NextAdapter]_vars

\* C33: the close upcall of an adapter has run at most once
C33_CloseHandlerOnce ==
  \A c \in ConnIds, side \in Sides : handlers[c].closes[side] <= 1

\* C34: when startServer fails because the adapter's start failed, the call
\* fails, the server is in Error with the cause recorded, and the instance
\* holds no process and no transport
C34_FailedStartLeavesError ==
  (/\ Returned("startServer")
   /\ event.f.pc = "await_adapter"
   /\ event.res = "err") =>
     /\ server.status = "error"
     /\ server.error
     /\ server.process = 0
     /\ ~server.transport

\* ------------------------------------------------- handleSSEPostMessage
\* a post whose body is handed to the handler twice
handleSSEPostMessage_twice(c, f) ==
  /\ Idle
  /\ c \in bridges
  /\ Len(handlers[c].recv["c2s"]) + 1 < MaxFrames
  /\ handlers' = [handlers EXCEPT ![c] = Forward(Forward(@, "c2s", f), "c2s", f)]
  /\ event' = [kind |-> "post", c |-> c, f |-> f,
               res |-> IF CanSend(handlers[c], "server") THEN "ok" ELSE "err"]
  /\ UNCHANGED <<server, procs, connections, order, bridges, timers, tasks,
                 running, runq, faults, usedIds, ghost>>

\* manager.ts 459, 469-473: the handler of the connection is in the map; its
\* handleClientMessage hands the body to the server adapter's send, whose
\* throw (no transport) fails the call
handleSSEPostMessage_forward(c, f) ==
  /\ Idle
  /\ c \in bridges
  /\ Len(handlers[c].recv["c2s"]) < MaxFrames
  /\ handlers' = [handlers EXCEPT ![c] = Forward(@, "c2s", f)]
  /\ event' = [kind |-> "post", c |-> c, f |-> f,
               res |-> IF CanSend(handlers[c], "server") THEN "ok" ELSE "err"]
  /\ UNCHANGED <<server, procs, connections, order, bridges, timers, tasks,
                 running, runq, faults, usedIds, ghost>>

\* manager.ts 459-467: no handler under the id, CONNECTION_NOT_FOUND
handleSSEPostMessage_notFound(c, f) ==
  /\ Idle
  /\ c \notin bridges
  /\ event' = [kind |-> "post", c |-> c, f |-> f, res |-> "CONNECTION_NOT_FOUND"]
  /\ UNCHANGED <<server, procs, connections, order, bridges, timers, tasks,
                 running, runq, faults, usedIds, ghost, handlers>>

\* one caller connects and disconnects connection WireConn while bodies are
\* posted for every connection id and frames arrive at the adapters
NextPost ==
  \/ CallConnectToServer(1, WireClient)
  \/ CallDisconnectConnection(1, WireConn)
  \/ WireStep
  \/ \E c \in ConnIds, f \in Frames : handleSSEPostMessage_forward(c, f)
  \/ \E c \in ConnIds, f \in Frames : handleSSEPostMessage_notFound(c, f)
  \/ \E f \in Frames : FrameArrives(WireConn, "s2c", f)

SpecPost == InitWire /\ [][NextPost]_vars

\* the frames handed to the server adapter's send of connection c's handler
HandedToServer(c) == handlers[c].handed["c2s"]

\* C35: a post for a connection id with a handler in the map adds the body,
\* once, to what was handed to that handler's server adapter and touches no
\* other handler; a post for an id without a handler fails with
\* connection-not-found and hands nothing to any adapter
C35_PostForwardsOnce ==
  [][event'.kind = "post" /\ event' # event =>
       IF event'.c \in bridges
         THEN /\ handlers'[event'.c].handed["c2s"] = Append(HandedToServer(event'.c), event'.f)
              /\ handlers'[event'.c].handed["s2c"] = handlers[event'.c].handed["s2c"]
              /\ event'.res # "CONNECTION_NOT_FOUND"
              /\ \A c \in ConnIds \ {event'.c} : handlers'[c] = handlers[c]
         ELSE /\ event'.res = "CONNECTION_NOT_FOUND"
              /\ handlers' = handlers]_vars

\* a body was forwarded for a connected connection, and a later post for the
\* same id, disconnected by then, found no handler
C35_Witness ==
  /\ event.kind = "post"
  /\ event.c = WireConn
  /\ event.res = "CONNECTION_NOT_FOUND"
  /\ HandedToServer(WireConn) # <<>>
  /\ connections[WireConn].status = "disconnected"

\* ------------------------------------------------ stopServer terminates
\* the steps of task t's request in SpecStop
StopRequestStep(t) ==
  \/ StopServerStep(t)
  \/ StartServerStep(t)
  \/ disconnectConnection_notFound(t)
  \/ disconnectConnection_already(t)
  \/ disconnectConnection_stopBridge(t)
  \/ disconnectConnection_stopped(t)
  \/ disconnectConnection_stopFails(t)

\* process.ts 79-108: a live child that killProcess signalled exits
KilledChildExits == \E p \in 1 .. MaxSpawns : KillWaiters(p) # {} /\ ServerExit(p)

\* SpecStop where the event loop serves every request in flight (a
\* continuation that is ready again and again does run, an awaited close or
\* handler stop settles) and a signalled child exits
SpecStopFair ==
  /\ SpecStop
  /\ \A t \in Tasks : SF_vars(StopRequestStep(t))
  /\ SF_vars(KilledChildExits)

\* C36: every stopServer call returns
C36_StopReturns ==
  \A t \in ApiTasks : (~Free(t) /\ Stack(t)[1].fn = "stopServer") ~> Free(t)

\* C37: when the server is Stopped and no request, continuation or restart
\* timer is in flight, no child the bridge spawned for it is alive
C37_StoppedAtRestHasNoChild ==
  (AtRest /\ server.status = "stopped") =>
     \A p \in DOMAIN procs : ~procs[p].alive

\* ------------------------------------------- stop during a start
\* a stdio server without autoRestart, requests recorded
InitRace ==
  /\ server = InitServer("stdio", FALSE, NoMax)
  /\ ghost = [NoHistory EXCEPT !.track = "requests"]
  /\ InitRest

\* two callers start and stop the server; children exit
NextRace ==
  \/ \E t \in ApiTasks : CallStartServer(t)
  \/ \E t \in ApiTasks : CallStopServer(t)
  \/ \E t \in Tasks : StartServerStep(t)
  \/ \E t \in Tasks : stopServer_already(t)
  \/ \E t \in Tasks : stopServer_begin(t)
  \/ \E t \in Tasks : stopServer_closeTransport(t)
  \/ \E t \in Tasks : stopServer_noTransport(t)
  \/ \E t \in Tasks : stopServer_closed(t)
  \/ \E t \in Tasks : stopServer_closeFails(t)
  \/ \E t \in Tasks : stopServer_kill(t)
  \/ \E t \in Tasks : stopServer_noProcess(t)
  \/ \E t \in Tasks : stopServer_finish(t)
  \/ \E p \in 1 .. MaxSpawns : ProcessExit(p)

SpecRace == InitRace /\ [][NextRace]_vars

\* C38: with no failure, once a stopServer has returned with success, no
\* start was requested after it and every call has returned, the server is
\* Stopped and none of its children is alive
C38_StopWinsOverStart ==
  (/\ faults = 0
   /\ ghost.stopped = "yes"
   /\ AtRest) =>
     /\ server.status = "stopped"
     /\ \A p \in DOMAIN procs : ~procs[p].alive

\* ----------------------------------- removal during a connect
\* two callers connect, disconnect and delete connection WireConn of a
\* running stdio server
NextRemove ==
  \/ \E t \in ApiTasks : CallConnectToServer(t, WireClient)
  \/ \E t \in ApiTasks : CallDisconnectConnection(t, WireConn)
  \/ \E t \in ApiTasks : CallDeleteConnection(t, WireConn)
  \/ WireStep
  \/ \E t \in Tasks : disconnectConnection_noBridge(t)
  \/ \E t \in Tasks : DeleteStep(t)

SpecRemove == InitWire /\ [][NextRemove]_vars

\* C39: at rest, every id of the handler map is the id of a connection in
\* the connection registry
C39_HandlersHaveConnections ==
  AtRest => \A c \in bridges : Present(c)

\* C40: the restart count of a server registered with maxRestarts never
\* exceeds maxRestarts
C40_RestartCountBounded ==
  server.maxRestarts # NoMax => server.restartCount <= server.maxRestarts

\* the exit of a watched child found the restart count, raised by an earlier
\* exit, at maxRestarts and scheduled no restart
C40_Witness ==
  /\ event.kind = "exit"
  /\ event.watched
  /\ ~event.restart
  /\ server.maxRestarts > 0
  /\ server.restartCount = server.maxRestarts
====
